---- MODULE Spec2Model ----
(***************************************************************************)
(* Verification model of the EMIR accuracy-reporting pipeline:             *)
(*   - the Step Functions state machine that sequences the validation      *)
(*     Lambdas (parallel validation, retry, catch),                        *)
(*   - the DynamoDB tables it writes (report runs, validation results,     *)
(*     accuracy scores),                                                   *)
(*   - the scoring engine (calculateAccuracyScore, the per-record Athena   *)
(*     query, getTrafficLightStatus).                                      *)
(* Scores are JavaScript numbers in the source; here they are exact        *)
(* rationals in lowest terms, so equal scores are equal values.            *)
(***************************************************************************)
EXTENDS Integers, Sequences, FiniteSets, TLC

VARIABLES
  sfnState,      \* current state of the Step Functions execution
  lambda,        \* per Lambda task: status and retries used
  reportRun,     \* the run's item in EmirReportRuns
  batch,         \* the immutable record snapshot: error count per validation
  store,         \* EmirValidationResults: validationKey -> items under the key
  scores,        \* EmirAccuracyScores: the OVERALL item, NoScore before
  cancelled,     \* a cancellation signal has arrived
  repeats,       \* status updates delivered again by the sink-call retry
  delivered,     \* history: the findings handed to EmirValidationResults
  redelivered,   \* history: some finding was handed over more than once
  results,       \* scoring engine input: validation results, in read order
  total,         \* scoring engine input: totalRecords
  scored,        \* the scores stored by the scoring engine, NoScore before
  runs,          \* number of scoring engine runs on results
  rec,           \* scoring engine input: a record as the scoring query sees it
  dayRows,       \* scoring engine input: the day's rows of emir_trades
  upload,        \* the uploaded file, by its number among the UploadInputs
  runError,      \* the error that failed the run, NoError without one
  ruleErrors,    \* the validators whose last attempt raised RuleEvaluationError
  trade,         \* validators' input: one record of emir_trades
  utiBatch,      \* validators' input: the day's records, uti and shard
  recordFindings, \* the findings the validators emitted for trade
  duplicates,    \* the rows of the UTI uniqueness query
  done,          \* the validation phases that have run on trade
  recordScore,   \* the emir_record_scores row of trade, NoScore before
  missingCount,  \* missing_mandatory_count of trade, NoCount before
  other,         \* validators' input: a second record of the batch, if any
  otherFindings, \* the findings the validators emitted for other
  parseErrors,   \* per phase: the records of the batch that did not parse
  naming,        \* the EmirNaming of the stack: its config and region code
  tableNames     \* the DynamoDB tables the stack has named, by purpose

vars == <<sfnState, lambda, reportRun, batch, store, scores, cancelled,
          repeats, delivered, redelivered,
          results, total, scored, runs, rec, dayRows,
          upload, runError, ruleErrors,
          trade, utiBatch, recordFindings, duplicates, done, recordScore,
          missingCount, other, otherFindings, parseErrors,
          naming, tableNames>>

pipelineVars == <<sfnState, lambda, reportRun, batch, store, scores,
                  cancelled, repeats, delivered, redelivered>>

scoringVars == <<results, total, scored, runs, rec, dayRows>>

loaderVars == <<upload, runError>>

errorVars == <<ruleErrors>>

namingVars == <<naming, tableNames>>

validationVars ==
  <<trade, utiBatch, recordFindings, duplicates, done, recordScore,
    missingCount, other, otherFindings, parseErrors>>

-----------------------------------------------------------------------------
\* Bounds of the model

MaxBatchRecords == 1   \* records in the pipeline's snapshot
MaxRepeats == 1        \* status updates the sink-call retry delivers again
MaxResults == 2        \* validation results read by one scoring run
MaxResultErrors == 6   \* errorCount of one validation result
MaxRecords == 3        \* totalRecords given to the scoring engine
MaxPerSeverity == 3    \* findings of one severity in one joined error row
MaxRuns == 2           \* scoring engine runs on one input
MaxEdits == 1          \* fields in which an input record differs from a base
MaxUtiBatch == 3       \* records read by the UTI uniqueness query
MaxDayRows == 2        \* rows read by the field category query
MaxFailures == 4       \* failed Lambda invocations in one observed run

-----------------------------------------------------------------------------
\* Exact rational arithmetic for scores

Abs(x) == IF x < 0 THEN -x ELSE x

RECURSIVE Gcd(_, _)
Gcd(a, b) == IF b = 0 THEN a ELSE Gcd(b, a % b)

\* n/d in lowest terms, d > 0
Rat(n, d) ==
  LET g == Gcd(Abs(n), d)
  IN  [n |-> n \div g, d |-> d \div g]

RatTimesInt(r, k) ==
  LET g == Gcd(k, r.d)
  IN  [n |-> r.n * (k \div g), d |-> r.d \div g]

IntMinusRat(k, r) == [n |-> k * r.d - r.n, d |-> r.d]

RatGeqInt(r, k) == r.n >= k * r.d

RatMax0(r) == IF r.n < 0 THEN [n |-> 0, d |-> 1] ELSE r

RatMin100(r) == IF r.n > 100 * r.d THEN [n |-> 100, d |-> 1] ELSE r

\* r rounded half-up to four decimals, as an integer count of 1/10000
RoundTo4(r) ==
  LET whole == r.n \div r.d
      part  == Rat(r.n % r.d, r.d)
      g     == Gcd(20000, part.d)
      twice == (part.n * (20000 \div g)) \div (part.d \div g)
  IN  whole * 10000 + (twice + 1) \div 2

-----------------------------------------------------------------------------
\* Scoring engine

Severities == {"CRITICAL", "MAJOR", "MINOR"}

NoScore == [none |-> TRUE]

\* a scoring engine that weighs every severity alike
PenaltyFlat(result) == result.errorCount * 10

\* weighted penalty of one validation result
Penalty(result) ==
  IF result.severity = "CRITICAL" THEN result.errorCount * 10
  ELSE IF result.severity = "MAJOR" THEN result.errorCount * 5
  ELSE IF result.severity = "MINOR" THEN result.errorCount * 2
  ELSE 0

\* a scoring engine that assigns the penalty instead of accumulating it
TotalPenaltyLastWins(validationResults) ==
  IF validationResults = <<>> THEN 0
  ELSE Penalty(validationResults[Len(validationResults)])

\* validationResults.forEach(result => totalPenalty += ...)
RECURSIVE TotalPenalty(_)
TotalPenalty(validationResults) ==
  IF validationResults = <<>> THEN 0
  ELSE TotalPenalty(SubSeq(validationResults, 1, Len(validationResults) - 1))
       + Penalty(validationResults[Len(validationResults)])

calculateAccuracyScore(validationResults, totalRecs) ==
  LET totalPenalty     == TotalPenalty(validationResults)
      maxPossibleScore == totalRecs * 100
  IN  RatMax0(RatTimesInt(Rat(maxPossibleScore - totalPenalty,
                              maxPossibleScore), 100))

\* the thresholds of the report guide's section 7.2 (green above 95)
getTrafficLightStatusStrict(accuracyScore) ==
  IF accuracyScore.n > 95 * accuracyScore.d THEN "GREEN"
  ELSE IF RatGeqInt(accuracyScore, 85) THEN "AMBER"
  ELSE "RED"

getTrafficLightStatus(accuracyScore) ==
  IF RatGeqInt(accuracyScore, 95) THEN "GREEN"
  ELSE IF RatGeqInt(accuracyScore, 85) THEN "AMBER"
  ELSE "RED"

RECURSIVE SeverityCount(_, _)
SeverityCount(validationResults, severity) ==
  IF validationResults = <<>> THEN 0
  ELSE SeverityCount(Tail(validationResults), severity)
       + (IF Head(validationResults).severity = severity
          THEN Head(validationResults).errorCount ELSE 0)

\* the OVERALL item of emir_accuracy_scores
OverallItem(validationResults, totalRecs) ==
  LET score == calculateAccuracyScore(validationResults, totalRecs)
  IN  [overallAccuracyScore |-> score,
       totalRecords         |-> totalRecs,
       criticalErrorCount   |-> SeverityCount(validationResults, "CRITICAL"),
       majorErrorCount      |-> SeverityCount(validationResults, "MAJOR"),
       minorErrorCount      |-> SeverityCount(validationResults, "MINOR"),
       trafficLight         |-> getTrafficLightStatus(score)]

-----------------------------------------------------------------------------
\* Per-record scoring (the emir_record_scores Athena query)

NoRow == [none |-> TRUE]

\* penalty_points of a format_errors / logical_errors row that summarises
\* the findings of one record: 10 per critical, 5 per major, 2 per minor
PenaltyPoints(row) ==
  row.CRITICAL * 10 + row.MAJOR * 5 + row.MINOR * 2

\* LEFT JOIN ... ON t.uti = fmt.uti: a NULL uti matches no row
LeftJoin(t, row) == IF t.uti_null THEN NoRow ELSE row

\* COALESCE(row.penalty_points, 0)
Coalesce(row) == IF row = NoRow THEN 0 ELSE PenaltyPoints(row)

Greatest(a, b) == IF a >= b THEN a ELSE b

RecordTotalPenalty(t) ==
  (IF t.uti_null THEN 10 ELSE 0)
  + (IF t.counterparty_1_null THEN 10 ELSE 0)
  + (IF t.action_type_null THEN 10 ELSE 0)
  + Coalesce(LeftJoin(t, t.fmt))
  + Coalesce(LeftJoin(t, t.log))

\* a scoring query without GREATEST
RecordScoreRowUnclamped(t) ==
  [total_penalty  |-> RecordTotalPenalty(t),
   accuracy_score |-> 100 - RecordTotalPenalty(t)]

RecordScoreRow(t) ==
  [total_penalty  |-> RecordTotalPenalty(t),
   accuracy_score |-> Greatest(0, 100 - RecordTotalPenalty(t))]

-----------------------------------------------------------------------------
\* Inputs of the scoring specification

ResultItems ==
  [severity : Severities, errorCount : 0..MaxResultErrors]

ResultInputs ==
  UNION {[1..n -> ResultItems] : n \in 0..MaxResults}

\* the worked example of the overall score formula
ExampleResults ==
  << [severity |-> "CRITICAL", errorCount |-> 1250],
     [severity |-> "MAJOR",    errorCount |-> 5230],
     [severity |-> "MINOR",    errorCount |-> 12340] >>

ExampleTotalRecords == 1000 * 1000

ErrorRows ==
  {NoRow} \cup [CRITICAL : 0..MaxPerSeverity, MAJOR : 0..MaxPerSeverity,
                MINOR : 0..MaxPerSeverity]

RecordInputs ==
  [uti_null : BOOLEAN, counterparty_1_null : BOOLEAN,
   action_type_null : BOOLEAN, fmt : ErrorRows, log : ErrorRows]

CleanRecord ==
  [uti_null |-> FALSE, counterparty_1_null |-> FALSE,
   action_type_null |-> FALSE, fmt |-> NoRow, log |-> NoRow]

ReadOrders(n) ==
  {p \in [1..n -> 1..n] : \A i, j \in 1..n : p[i] = p[j] => i = j}

Reorder(seq, p) == [i \in 1..Len(seq) |-> seq[p[i]]]

-----------------------------------------------------------------------------
\* The EMIR field schema (the column list of the Glue table emir_trades)

getEmirFieldSchema ==
  << "uti", "report_tracking_number", "counterparty_1", "counterparty_2",
     "report_submitting_entity_id", "entity_responsible_reporting",
     "action_type", "event_type", "event_date", "execution_timestamp",
     "effective_date", "expiration_date", "early_termination_date",
     "direction", "venue_identification", "master_agreement_type", "isin",
     "upi", "asset_class", "product_classification", "product_name",
     "underlying_isin", "underlying_index", "underlying_currency",
     "notional_currency_1", "notional_amount_1", "notional_currency_2",
     "notional_amount_2", "price_currency", "price", "price_notation",
     "cleared", "central_counterparty", "clearing_timestamp",
     "clearing_obligation", "clearing_threshold", "clearing_member",
     "intragroup", "post_trade_risk_reduction", "settlement_date",
     "settlement_currency", "counterparty_1_nature",
     "counterparty_2_nature", "counterparty_1_sector",
     "counterparty_2_sector", "counterparty_1_country",
     "counterparty_2_country", "execution_agent_id",
     "execution_agent_country", "broker_id", "broker_country",
     "trading_capacity", "beneficiary_id",
     "directly_linked_to_commercial_activity", "collateralisation",
     "collateral_portfolio", "valuation_amount", "valuation_currency",
     "valuation_timestamp", "valuation_method", "delta",
     "report_timestamp", "report_status", "level", "confirmation_means",
     "confirmation_timestamp", "prior_uti", "subsequent_position",
     "option_type", "option_style", "option_exercise_date", "strike_price",
     "strike_price_currency", "strike_price_notation", "delivery_type",
     "barrier_type", "barrier_level", "premium_amount", "leg1_fixed_rate",
     "leg1_floating_rate", "leg1_floating_rate_term",
     "leg1_floating_rate_reset_frequency", "leg1_payment_frequency",
     "leg1_payment_dates", "leg1_spread", "leg1_day_count_convention",
     "leg1_notional_amount", "leg1_notional_currency",
     "leg1_notional_schedule", "leg1_initial_exchange",
     "leg1_final_exchange", "leg1_payer", "leg1_receiver",
     "leg2_fixed_rate", "leg2_floating_rate", "leg2_floating_rate_term",
     "leg2_floating_rate_reset_frequency", "leg2_payment_frequency",
     "leg2_payment_dates", "leg2_spread", "leg2_day_count_convention",
     "leg2_notional_amount", "leg2_notional_currency",
     "leg2_notional_schedule", "leg2_initial_exchange",
     "leg2_final_exchange", "leg2_payer", "leg2_receiver",
     "initial_margin_posted", "initial_margin_received",
     "variation_margin_posted", "variation_margin_received",
     "margin_currency", "collateral_type", "collateral_value",
     "collateral_currency", "segregation_type", "excess_collateral",
     "collateral_quality", "rehypothecation", "exchange_rate",
     "exchange_rate_basis", "package_indicator",
     "package_transaction_price", "contingent_event",
     "compression_indicator", "price_accuracy", "execution_venue",
     "hybrid_indicator", "cross_currency_indicator",
     "fixed_float_indicator", "fixed_rate_day_count",
     "floating_rate_day_count", "embedded_option",
     "optional_termination_date", "spread_notation", "index_factor",
     "attachment_point", "detachment_point", "quantity", "quantity_unit",
     "delivery_point", "load_type", "delivery_start_date",
     "delivery_end_date", "duration", "frequency", "commodity_base",
     "commodity_details", "notional_amount_schedule", "step_up_step_down",
     "callable_puttable", "knock_in_out", "reference_entity",
     "reference_obligation", "seniority", "index_series", "index_version",
     "tranche", "basket_identifier", "basket_constituents",
     "custom_basket", "settlement_location", "transaction_id",
     "venue_transaction_id", "platform", "taxonomy", "additional_data" >>

\* the number of fields the catalog's description announces
ExpectedFieldCount == 203

FieldNameSet == {getEmirFieldSchema[i] : i \in 1..Len(getEmirFieldSchema)}

\* Schema Registry load: the count is the announced one and no name repeats
SchemaLoads(columns) ==
  /\ Len(columns) = ExpectedFieldCount
  /\ \A i, j \in 1..Len(columns) : columns[i] = columns[j] => i = j

-----------------------------------------------------------------------------
\* Column values.  A string column holds a sequence of characters, a date
\* the number of its day in the reporting month, a timestamp its second in
\* the reporting month, a decimal its integer amount; any column may be NULL.

Null == [k |-> "null", s |-> <<>>, n |-> 0]
Str(chars) == [k |-> "string", s |-> chars, n |-> 0]
Num(i) == [k |-> "number", s |-> <<>>, n |-> i]
Empty == Str(<<>>)

IsNull(v) == v.k = "null"

SecondsPerDay == 86400

\* a timestamp at second secs of day d
Ts(d, secs) == Num(d * SecondsPerDay + secs)

UpperChars ==
  {"A", "B", "C", "D", "E", "F", "G", "H", "I", "J", "K", "L", "M",
   "N", "O", "P", "Q", "R", "S", "T", "U", "V", "W", "X", "Y", "Z"}

DigitChars == {"0", "1", "2", "3", "4", "5", "6", "7", "8", "9"}

\* REGEXP_LIKE(v, '^[chars]{n}$')
RegexpLikeExactly(v, chars, n) ==
  /\ Len(v.s) = n
  /\ \A i \in 1..Len(v.s) : v.s[i] \in chars

\* SUBSTR(v, start, n): the characters the string has in that range
Substr(v, start, n) ==
  Str(SubSeq(v.s, start,
             IF start + n - 1 <= Len(v.s) THEN start + n - 1 ELSE Len(v.s)))

\* v = 'text' (no row compares equal to NULL)
Is(v, chars) == v.k = "string" /\ v.s = chars

\* the literal strings of the queries and of the model's records
Text ==
  [LeiA |-> <<"5", "2", "9", "9", "0", "0", "T", "8", "B", "M", "4", "9", "A", "U", "R", "S", "D", "O", "5", "5">>,
   LeiB |-> <<"X", "K", "Z", "Z", "2", "J", "Z", "F", "4", "1", "M", "R", "H", "T", "R", "1", "V", "4", "9", "3">>,
   LeiShort |-> <<"1", "2", "3", "4">>,
   LeiLower |-> <<"5", "2", "9", "9", "0", "0", "t", "8", "b", "m", "4", "9", "a", "u", "r", "s", "d", "o", "5", "5">>,
   IsinA |-> <<"U", "S", "0", "3", "7", "8", "3", "3", "1", "0", "0", "5">>,
   IsinLower |-> <<"u", "s", "0", "3", "7", "8", "3", "3", "1", "0", "0", "5">>,
   Eur |-> <<"E", "U", "R">>,
   Usd |-> <<"U", "S", "D">>,
   Gbp |-> <<"G", "B", "P">>,
   Jpy |-> <<"J", "P", "Y">>,
   EurLower |-> <<"e", "u", "r">>,
   Uti1 |-> <<"U", "T", "I", "1">>,
   Uti2 |-> <<"U", "T", "I", "2">>,
   BoolTrue |-> <<"t", "r", "u", "e">>,
   BoolFalse |-> <<"f", "a", "l", "s", "e">>,
   New |-> <<"N", "E", "W">>,
   Trade |-> <<"T", "R", "A", "D", "E">>,
   Buy |-> <<"B", "U", "Y">>,
   Equity |-> <<"E", "Q", "U", "I", "T", "Y">>,
   Option |-> <<"O", "P", "T", "I", "O", "N">>,
   Swap |-> <<"S", "W", "A", "P">>,
   Call |-> <<"C", "A", "L", "L">>,
   European |-> <<"E", "U", "R", "O", "P", "E", "A", "N">>,
   Euribor |-> <<"E", "U", "R", "I", "B", "O", "R">>,
   Cfi |-> <<"S", "R", "C", "C", "S", "P">>,
   Upi |-> <<"Q", "Z", "1", "2", "3", "4", "5", "6", "7", "8", "9", "0">>,
   Name |-> <<"S", "H", "A", "R", "E">>,
   Rtn |-> <<"R", "T", "N", "1">>]

\* the ISO 4217 codes the currency query lists
IsoCurrencies == {Text.Usd, Text.Eur, Text.Gbp, Text.Jpy}

\* the 1 trillion threshold of the notional query, in millions
NotionalThreshold == 1000 * 1000

-----------------------------------------------------------------------------
\* Fields of a record that some validation rule reads

IdentifierFields ==
  {"uti", "report_tracking_number", "counterparty_1", "counterparty_2",
   "report_submitting_entity_id", "entity_responsible_reporting"}

TradeInformationFields ==
  {"action_type", "event_type", "event_date", "execution_timestamp",
   "direction"}

ProductInformationFields == {"asset_class", "product_classification"}

\* ISIN or UPI: at least one of the two is required
ProductIdentifierFields == {"isin", "upi"}

MandatoryFields ==
  IdentifierFields \cup TradeInformationFields \cup ProductInformationFields

LeiFields ==
  {"counterparty_1", "counterparty_2", "report_submitting_entity_id",
   "entity_responsible_reporting", "execution_agent_id", "broker_id",
   "clearing_member"}

OptionFields == {"option_type", "option_style", "strike_price"}

SwapLegFields ==
  {"leg1_fixed_rate", "leg1_floating_rate", "leg2_fixed_rate",
   "leg2_floating_rate"}

RuleFields ==
  MandatoryFields \cup ProductIdentifierFields \cup LeiFields
  \cup {"effective_date", "expiration_date", "early_termination_date",
        "cleared", "central_counterparty", "clearing_timestamp",
        "clearing_obligation", "notional_amount_1", "notional_currency_1",
        "valuation_amount", "valuation_currency", "product_name"}
  \cup OptionFields \cup SwapLegFields

\* columns of type string: an empty CSV cell reads as the empty string
StringFields ==
  RuleFields \ {"event_date", "execution_timestamp", "effective_date",
                "expiration_date", "early_termination_date",
                "clearing_timestamp", "notional_amount_1",
                "valuation_amount", "strike_price", "leg1_fixed_rate",
                "leg2_fixed_rate"}

-----------------------------------------------------------------------------
\* Phase 2: completeness validation

\* uti IS NULL OR uti = ''
Missing(v) == IsNull(v) \/ Is(v, <<>>)

Finding(phase, rule, field, severity) ==
  [phase |-> phase, rule |-> rule, field |-> field, severity |-> severity]

\* a severity rule that makes only the identifiers critical
MissingSeverityIdentifiersOnly(f) ==
  IF f \in IdentifierFields THEN "CRITICAL" ELSE "MAJOR"

\* missing identifiers and a missing action or event type are critical
\* errors, the other missing fields of the mandatory list major ones
MissingSeverity(f) ==
  IF f \in IdentifierFields \cup {"action_type", "event_type"}
  THEN "CRITICAL" ELSE "MAJOR"

CompletenessFindings(t) ==
  {Finding("COMPLETENESS", "MISSING_FIELD", f, MissingSeverity(f)) :
     f \in {g \in MandatoryFields : Missing(t[g])}}
  \cup (IF \A f \in ProductIdentifierFields : Missing(t[f])
        THEN {Finding("COMPLETENESS", "MISSING_FIELD", "isin_or_upi",
                      "MAJOR")}
        ELSE {})

\* "Records with multiple critical gaps": the number of mandatory fields of
\* the record that are NULL (CASE WHEN uti IS NULL THEN 1 ELSE 0 END + ...)
MissingMandatoryCount(t) ==
  Cardinality({f \in MandatoryFields : IsNull(t[f])})

-----------------------------------------------------------------------------
\* Phase 3: format validation

\* a check that looks at the length only
LeiFormatErrorLengthOnly(v) ==
  /\ ~IsNull(v)
  /\ Len(v.s) # 20

\* counterparty_1 IS NOT NULL AND (LENGTH(counterparty_1) != 20
\*   OR NOT REGEXP_LIKE(counterparty_1, '^[A-Z0-9]{20}$'))
LeiFormatError(v) ==
  /\ ~IsNull(v)
  /\ \/ Len(v.s) # 20
     \/ ~RegexpLikeExactly(v, UpperChars \cup DigitChars, 20)

IsinFormatError(v) ==
  /\ ~IsNull(v)
  /\ \/ Len(v.s) # 12
     \/ ~RegexpLikeExactly(Substr(v, 1, 2), UpperChars, 2)
     \/ ~RegexpLikeExactly(Substr(v, 3, 9), UpperChars \cup DigitChars, 9)

CurrencyFormatError(v) ==
  /\ ~IsNull(v)
  /\ \/ Len(v.s) # 3
     \/ ~RegexpLikeExactly(v, UpperChars, 3)
     \/ v.s \notin IsoCurrencies

\* The date format query reads execution_timestamp and effective_date,
\* columns of type timestamp and date: their values are dates by type.
FormatFindings(t) ==
  {Finding("FORMAT", "FORMAT_ERROR", f, "CRITICAL") :
     f \in {g \in LeiFields : LeiFormatError(t[g])}}
  \cup (IF IsinFormatError(t["isin"])
        THEN {Finding("FORMAT", "FORMAT_ERROR", "isin", "CRITICAL")}
        ELSE {})
  \cup (IF CurrencyFormatError(t["notional_currency_1"])
        THEN {Finding("FORMAT", "FORMAT_ERROR", "notional_currency_1",
                      "MAJOR")}
        ELSE {})

\* UTI uniqueness check: one row per UTI value that occurs more than once
\* among the records of the day, with the number of its occurrences
UtiCount(records, uti) ==
  Cardinality({i \in 1..Len(records) : records[i].uti = uti})

UtiDuplicatesPerRecord(records) ==
  {[uti |-> records[i].uti, duplicate_count |-> i] :
     i \in {j \in 1..Len(records) :
              /\ ~IsNull(records[j].uti)
              /\ \E h \in 1..(j - 1) : records[h].uti = records[j].uti}}

UtiDuplicatesPerShard(records) ==
  {[uti |-> records[i].uti,
    duplicate_count |->
      Cardinality({j \in 1..Len(records) :
                     /\ records[j].uti = records[i].uti
                     /\ records[j].shard = records[i].shard})] :
     i \in {j \in 1..Len(records) :
              /\ ~IsNull(records[j].uti)
              /\ \E h \in 1..Len(records) :
                   /\ h # j
                   /\ records[h].uti = records[j].uti
                   /\ records[h].shard = records[j].shard}}

UtiDuplicates(records) ==
  {[uti |-> records[i].uti,
    duplicate_count |-> UtiCount(records, records[i].uti)] :
     i \in {j \in 1..Len(records) :
              /\ ~IsNull(records[j].uti)
              /\ UtiCount(records, records[j].uti) > 1}}

-----------------------------------------------------------------------------
\* Phase 4: logical validation

\* DATE_DIFF('day', a, b): whole days from timestamp a to timestamp b
DateDiffDays(a, b) ==
  IF b.n >= a.n THEN (b.n - a.n) \div SecondsPerDay
  ELSE 0 - ((a.n - b.n) \div SecondsPerDay)

\* the clearing period of the date sequence query, in days
ClearingPeriodDays == 5

\* a timestamp compared with a date: the date is its midnight
TimestampAfterDate(ts, d) ==
  ~IsNull(ts) /\ ~IsNull(d) /\ ts.n > d.n * SecondsPerDay

DateAfter(a, b) == ~IsNull(a) /\ ~IsNull(b) /\ a.n > b.n

DateNotBefore(a, b) == ~IsNull(a) /\ ~IsNull(b) /\ a.n >= b.n

ClearingFarFromExecution(t) ==
  /\ Is(t["cleared"], Text.BoolTrue)
  /\ ~IsNull(t["clearing_timestamp"])
  /\ ~IsNull(t["execution_timestamp"])
  /\ Abs(DateDiffDays(t["execution_timestamp"], t["clearing_timestamp"]))
       > ClearingPeriodDays

\* a date sequence query without the clearing timestamp condition
DateSequenceErrorOrderOnly(t) ==
  \/ TimestampAfterDate(t["execution_timestamp"], t["effective_date"])
  \/ DateAfter(t["effective_date"], t["expiration_date"])
  \/ DateNotBefore(t["early_termination_date"], t["expiration_date"])

DateSequenceError(t) ==
  \/ TimestampAfterDate(t["execution_timestamp"], t["effective_date"])
  \/ DateAfter(t["effective_date"], t["expiration_date"])
  \/ DateNotBefore(t["early_termination_date"], t["expiration_date"])
  \/ ClearingFarFromExecution(t)

\* a clearing check that wants the CCP and the clearing timestamp on every
\* record, cleared or not
ClearingLogicErrorWhetherCleared(t) ==
  \/ Missing(t["central_counterparty"])
  \/ IsNull(t["clearing_timestamp"])
  \/ Is(t["clearing_obligation"], Text.BoolTrue) /\ Is(t["cleared"], Text.BoolFalse)

ClearingLogicError(t) ==
  \/ Is(t["cleared"], Text.BoolTrue) /\ Missing(t["central_counterparty"])
  \/ Is(t["cleared"], Text.BoolTrue) /\ IsNull(t["clearing_timestamp"])
  \/ Is(t["clearing_obligation"], Text.BoolTrue) /\ Is(t["cleared"], Text.BoolFalse)

NotionalError(t) ==
  \/ ~IsNull(t["notional_amount_1"]) /\ IsNull(t["notional_currency_1"])
  \/ IsNull(t["notional_amount_1"]) /\ ~IsNull(t["notional_currency_1"])
  \/ ~IsNull(t["notional_amount_1"]) /\ t["notional_amount_1"].n < 0
  \/ /\ ~IsNull(t["notional_amount_1"])
     /\ t["notional_amount_1"].n > NotionalThreshold
  \/ ~IsNull(t["valuation_amount"]) /\ IsNull(t["valuation_currency"])

\* a query that checks option fields whatever the asset class
OptionIncompleteAnyAssetClass(t) ==
  \E f \in OptionFields :
    /\ ~IsNull(t[f])
    /\ \E g \in OptionFields \ {f} : IsNull(t[g])

OptionIncomplete(t) ==
  /\ Is(t["asset_class"], Text.Option)
  /\ \E f \in OptionFields :
       /\ ~IsNull(t[f])
       /\ \E g \in OptionFields \ {f} : IsNull(t[g])

\* a leg check that misses the leg with no rate at all
LegErrorBothPopulatedOnly(fixed, floating) ==
  ~IsNull(fixed) /\ ~IsNull(floating)

LegError(fixed, floating) ==
  \/ ~IsNull(fixed) /\ ~IsNull(floating)
  \/ IsNull(fixed) /\ IsNull(floating)

\* a swap query without the asset class condition
SwapLegErrorAnyAssetClass(t) ==
  \/ LegError(t["leg1_fixed_rate"], t["leg1_floating_rate"])
  \/ LegError(t["leg2_fixed_rate"], t["leg2_floating_rate"])

SwapLegError(t) ==
  /\ Is(t["asset_class"], Text.Swap)
  /\ \/ LegError(t["leg1_fixed_rate"], t["leg1_floating_rate"])
     \/ LegError(t["leg2_fixed_rate"], t["leg2_floating_rate"])

RecordFinding(rule, severity) == Finding("LOGICAL", rule, "", severity)

LogicalFindings(t) ==
  (IF DateSequenceError(t)
   THEN {RecordFinding("DATE_SEQUENCE_ERROR", "CRITICAL")} ELSE {})
  \cup (IF ClearingLogicError(t)
        THEN {RecordFinding("CLEARING_LOGIC_ERROR", "MAJOR")} ELSE {})
  \cup (IF NotionalError(t)
        THEN {RecordFinding("NOTIONAL_ERROR", "MAJOR")} ELSE {})
  \cup (IF OptionIncomplete(t)
        THEN {RecordFinding("OPTION_INCOMPLETE_DATA", "MAJOR")} ELSE {})
  \cup (IF SwapLegError(t)
        THEN {RecordFinding("SWAP_LEG_ERROR", "MAJOR")} ELSE {})

-----------------------------------------------------------------------------
\* Evaluation of one record by a phase

Phases == {"COMPLETENESS", "FORMAT", "LOGICAL"}

\* columns of a type other than string: their cells are parsed
TypedFields == RuleFields \ StringFields

\* RecordParseError: a cell of a typed column holds text that is no value
\* of the column's type
RecordParseError(t) == \E f \in TypedFields : t[f].k = "string"

PhaseFindings(phase, t) ==
  CASE phase = "COMPLETENESS" -> CompletenessFindings(t)
    [] phase = "FORMAT"       -> FormatFindings(t)
    [] phase = "LOGICAL"      -> LogicalFindings(t)

\* an evaluation that reports the parse error as a finding of the record
EvaluateFlaggingParseError(phase, t) ==
  IF RecordParseError(t)
  THEN {Finding(phase, "PARSE_ERROR", "", "CRITICAL")}
  ELSE PhaseFindings(phase, t)

\* a record that does not parse is excluded from the phase's evaluation
Evaluate(phase, t) ==
  IF RecordParseError(t) THEN {} ELSE PhaseFindings(phase, t)

\* the records of the batch that the phase counts as parse errors
ParseErrorCount(records) ==
  Cardinality({i \in 1..Len(records) : RecordParseError(records[i])})

-----------------------------------------------------------------------------
\* The record as the per-record scoring query sees it

\* the format_errors / logical_errors row of a record: NoRow without findings
ErrorRow(fs) ==
  IF fs = {} THEN NoRow
  ELSE [s \in Severities |-> Cardinality({f \in fs : f.severity = s})]

ScoringView(t, fs) ==
  [uti_null            |-> IsNull(t["uti"]),
   counterparty_1_null |-> IsNull(t["counterparty_1"]),
   action_type_null    |-> IsNull(t["action_type"]),
   fmt |-> ErrorRow({f \in fs : f.phase = "FORMAT"}),
   log |-> ErrorRow({f \in fs : f.phase = "LOGICAL"})]

-----------------------------------------------------------------------------
\* Field category scores

\* the categories of the query and the columns each of them tests
CategoryFields ==
  [critical_identifiers |-> {"uti", "counterparty_1"},
   trade_information    |-> {"action_type", "event_type"}]

Categories == DOMAIN CategoryFields

\* a score that averages over the fields of every row
CategoryScorePerField(rows, fields) ==
  IF rows = <<>> THEN NoScore
  ELSE Rat(100 * Cardinality({<<i, f>> \in (1..Len(rows)) \X fields :
                                ~IsNull(rows[i][f])}),
           Len(rows) * Cardinality(fields))

\* AVG(CASE WHEN uti IS NOT NULL AND counterparty_1 IS NOT NULL
\*          THEN 100 ELSE 0 END); the average of no row is NULL
CategoryScore(rows, fields) ==
  IF rows = <<>> THEN NoScore
  ELSE Rat(100 * Cardinality({i \in 1..Len(rows) :
                                \A f \in fields : ~IsNull(rows[i][f])}),
           Len(rows))

CategoryScores(rows) ==
  [c \in Categories |-> CategoryScore(rows, CategoryFields[c])]

\* the rows the category query may read: each tested column NULL or
\* populated, the uti also empty
DayRowInputs ==
  [uti : {Null, Empty, Str(Text.Uti1)},
   counterparty_1 : {Null, Str(Text.LeiA)},
   action_type : {Null, Str(Text.New)},
   event_type : {Null, Str(Text.Trade)}]

DayInputs == UNION {[1..n -> DayRowInputs] : n \in 1..MaxDayRows}

-----------------------------------------------------------------------------
\* Inputs of the validation specification

\* a record with every field populated and no finding
EquityTrade ==
  [f \in RuleFields |->
     CASE f = "uti"                      -> Str(Text.Uti1)
       [] f = "report_tracking_number"   -> Str(Text.Rtn)
       [] f = "counterparty_2"           -> Str(Text.LeiB)
       [] f \in LeiFields \ {"counterparty_2"} -> Str(Text.LeiA)
       [] f = "central_counterparty"     -> Str(Text.LeiB)
       [] f = "action_type"              -> Str(Text.New)
       [] f = "event_type"               -> Str(Text.Trade)
       [] f = "direction"                -> Str(Text.Buy)
       [] f = "isin"                     -> Str(Text.IsinA)
       [] f = "upi"                      -> Str(Text.Upi)
       [] f = "asset_class"              -> Str(Text.Equity)
       [] f = "product_classification"   -> Str(Text.Cfi)
       [] f = "product_name"             -> Str(Text.Name)
       [] f = "event_date"               -> Num(10)
       [] f = "execution_timestamp"      -> Ts(10, 37800)
       [] f = "effective_date"           -> Num(11)
       [] f = "expiration_date"          -> Num(20)
       [] f = "early_termination_date"   -> Num(15)
       [] f = "cleared"                  -> Str(Text.BoolTrue)
       [] f = "clearing_timestamp"       -> Ts(10, 40000)
       [] f = "clearing_obligation"      -> Str(Text.BoolTrue)
       [] f = "notional_amount_1"        -> Num(5)
       [] f = "notional_currency_1"      -> Str(Text.Eur)
       [] f = "valuation_amount"         -> Num(5)
       [] f = "valuation_currency"       -> Str(Text.Eur)
       [] f = "option_type"              -> Str(Text.Call)
       [] f = "option_style"             -> Str(Text.European)
       [] f = "strike_price"             -> Num(100)
       [] f = "leg1_fixed_rate"          -> Num(2)
       [] f = "leg1_floating_rate"       -> Str(Text.Euribor)
       [] f = "leg2_fixed_rate"          -> Num(2)
       [] f = "leg2_floating_rate"       -> Str(Text.Euribor)]

OptionTrade == [EquityTrade EXCEPT !["asset_class"] = Str(Text.Option)]

\* a swap that pays fixed on leg 1 and floating on leg 2
SwapTrade ==
  [EquityTrade EXCEPT !["asset_class"] = Str(Text.Swap),
                      !["leg1_floating_rate"] = Null,
                      !["leg2_fixed_rate"] = Null]

\* a trade that is not cleared and is neither an option nor a swap: no
\* clearing, option or leg field is populated
BilateralTrade ==
  [f \in RuleFields |->
     CASE f \in {"cleared", "clearing_obligation"} -> Str(Text.BoolFalse)
       [] f \in {"central_counterparty", "clearing_timestamp"} -> Null
       [] f \in OptionFields \cup SwapLegFields -> Null
       [] OTHER -> EquityTrade[f]]

BaseTrades == {EquityTrade, OptionTrade, SwapTrade, BilateralTrade}

\* string fields whose edits include other values than NULL and ''
SpecialStringFields ==
  LeiFields \cup {"uti", "asset_class", "isin", "cleared",
                  "clearing_obligation", "notional_currency_1"}

\* the values an edit may give a field
FieldValues(f) ==
  CASE f \in LeiFields ->
         {Null, Empty, Str(Text.LeiShort), Str(Text.LeiLower)}
    [] f = "uti"                 -> {Null, Empty, Str(Text.Uti2)}
    [] f = "asset_class"         -> {Null, Empty, Str(Text.Option), Str(Text.Swap)}
    [] f = "isin"                -> {Null, Empty, Str(Text.IsinLower)}
    [] f = "execution_timestamp" ->
         {Null, Ts(11, 0), Ts(11, 1), Ts(12, 0)}
    [] f = "effective_date"      -> {Null, Num(10), Num(20), Num(21)}
    [] f = "expiration_date"     -> {Null, Num(15), Num(12), Num(10)}
    [] f = "early_termination_date" -> {Null, Num(20), Num(25)}
    [] f = "cleared"             ->
         {Null, Str(Text.BoolFalse), Str(Text.BoolTrue)}
    [] f = "clearing_obligation" ->
         {Null, Str(Text.BoolFalse), Str(Text.BoolTrue)}
    [] f = "clearing_timestamp"  ->
         {Null, Ts(15, 37800), Ts(16, 37800), Ts(4, 0)}
    [] f = "notional_amount_1"   ->
         {Null, Num(0 - 1), Num(0), Num(NotionalThreshold),
          Num(NotionalThreshold + 1)}
    [] f = "notional_currency_1" ->
         {Null, Empty, Str(Text.EurLower), Str(Text.Usd)}
    [] f \in StringFields \ SpecialStringFields -> {Null, Empty}
    [] OTHER                     -> {Null}

\* the edits of one field: the field and its new value
FieldEdits ==
  UNION {{<<f, v>> : v \in FieldValues(f)} : f \in RuleFields}

EditOnce(trades) ==
  trades \cup {[t EXCEPT ![e[1]] = e[2]] : t \in trades, e \in FieldEdits}

RECURSIVE Edited(_, _)
Edited(trades, n) ==
  IF n = 0 THEN trades ELSE Edited(EditOnce(trades), n - 1)

\* the base records with at most n fields edited
TradeInputs(n) == Edited(BaseTrades, n)

Shards == {1, 2}

UtiRecords == [uti : {Null, Str(Text.Uti1), Str(Text.Uti2)}, shard : Shards]

UtiBatchInputs == UNION {[1..n -> UtiRecords] : n \in 0..MaxUtiBatch}

\* no record is under validation
NoTrade == <<>>

\* records with text in a decimal cell
UnparseableInputs ==
  {[EquityTrade EXCEPT ![f] = Str(Text.Name)] :
     f \in {"notional_amount_1", "valuation_amount", "strike_price"}}

\* the records of a batch of two: a clean one, one without counterparty_1
\* and the unparseable ones
PairInputs ==
  {EquityTrade, [EquityTrade EXCEPT !["counterparty_1"] = Null]}
  \cup UnparseableInputs

\* the records that the phases read: trade, and other if there is one
Records(t, o) == IF o = NoTrade THEN <<t>> ELSE <<t, o>>

\* the gaps query has not run on the record
NoCount == -1

InitValidation ==
  /\ trade = NoTrade
  /\ utiBatch = <<>>
  /\ recordFindings = {}
  /\ duplicates = {}
  /\ done = {}
  /\ recordScore = NoScore
  /\ missingCount = NoCount
  /\ other = NoTrade
  /\ otherFindings = {}
  /\ parseErrors = [p \in Phases |-> 0]

-----------------------------------------------------------------------------
\* Resource naming (EmirNaming)

\* region.split('-'): the pieces of s between the separators
RECURSIVE split(_, _)
split(s, sep) ==
  IF \A i \in 1..Len(s) : s[i] # sep
  THEN <<s>>
  ELSE LET i == CHOOSE k \in 1..Len(s) :
                  s[k] = sep /\ \A j \in 1..(k - 1) : s[j] # sep
       IN <<SubSeq(s, 1, i - 1)>> \o split(SubSeq(s, i + 1, Len(s)), sep)

\* String.prototype.toUpperCase on the characters of a resource name
toUpperCase(s) ==
  LET upperOf ==
        [a |-> "A", b |-> "B", c |-> "C", d |-> "D", e |-> "E", f |-> "F",
        g |-> "G", h |-> "H", i |-> "I", j |-> "J", k |-> "K", l |-> "L",
        m |-> "M", n |-> "N", o |-> "O", p |-> "P", q |-> "Q", r |-> "R",
        s |-> "S", t |-> "T", u |-> "U", v |-> "V", w |-> "W", x |-> "X",
        y |-> "Y", z |-> "Z"]
  IN [i \in 1..Len(s) |->
        IF s[i] \in DOMAIN upperOf THEN upperOf[s[i]] ELSE s[i]]

\* us-east-1 -> use1, eu-west-1 -> euw1
getRegionCode(region) ==
  LET parts == split(region, "-")
      regionMap ==
        <<"u", "s">> :> <<"u", "s">>
        @@ <<"e", "u">> :> <<"e", "u">>
        @@ <<"a", "p">> :> <<"a", "p">>
        @@ <<"c", "a">> :> <<"c", "a">>
        @@ <<"s", "a">> :> <<"s", "a">>
      directionMap ==
        <<"e", "a", "s", "t">> :> <<"e">>
        @@ <<"w", "e", "s", "t">> :> <<"w">>
        @@ <<"c", "e", "n", "t", "r", "a", "l">> :> <<"c">>
        @@ <<"n", "o", "r", "t", "h">> :> <<"n">>
        @@ <<"s", "o", "u", "t", "h">> :> <<"s">>
        @@ <<"n", "o", "r", "t", "h", "e", "a", "s", "t">> :> <<"n", "e">>
        @@ <<"s", "o", "u", "t", "h", "e", "a", "s", "t">> :> <<"s", "e">>
      prefix == IF parts[1] \in DOMAIN regionMap
                THEN regionMap[parts[1]] ELSE parts[1]
      direction == IF parts[2] \in DOMAIN directionMap
                   THEN directionMap[parts[2]] ELSE SubSeq(parts[2], 1, 1)
      number == parts[3]
  IN IF Len(parts) # 3 THEN region ELSE prefix \o direction \o number

\* the environment with its first letter in upper case
getEnvSuffix(config) ==
  toUpperCase(SubSeq(config.environment, 1, 1))
  \o SubSeq(config.environment, 2, Len(config.environment))

\* new EmirNaming(config): the region code is computed once
EmirNaming(config) ==
  [config |-> config, regionCode |-> getRegionCode(config.region)]

\* a table name that carries the region itself, as bucket() and lambda() do
EmirNamingTableFromRegion(n, purpose) ==
  <<"E", "m", "i", "r">> \o purpose \o <<"-">> \o getEnvSuffix(n.config)
  \o <<"-">> \o toUpperCase(n.config.region)

\* Emir{Purpose}-{Environment}-{RegionCode}
EmirNamingTable(n, purpose) ==
  <<"E", "m", "i", "r">> \o purpose \o <<"-">> \o getEnvSuffix(n.config)
  \o <<"-">> \o toUpperCase(n.regionCode)

\* region names: AWS regions of three parts, one of four and a local name
Regions ==
  {<<"u", "s", "-", "e", "a", "s", "t", "-", "1">>,
   <<"e", "u", "-", "w", "e", "s", "t", "-", "1">>,
   <<"e", "u", "-", "c", "e", "n", "t", "r", "a", "l", "-", "1">>,
   <<"a", "p", "-", "s", "o", "u", "t", "h", "e", "a", "s", "t", "-", "2">>,
   <<"a", "p", "-", "n", "o", "r", "t", "h", "e", "a", "s", "t", "-", "1">>,
   <<"c", "n", "-", "n", "o", "r", "t", "h", "w", "e", "s", "t", "-", "1">>,
   <<"u", "s", "-", "g", "o", "v", "-", "e", "a", "s", "t", "-", "1">>,
   <<"l", "o", "c", "a", "l">>}

\* the configurations of the stack: dev, staging or prod in a region
ConfigInputs ==
  [environment : {<<"d", "e", "v">>,
                  <<"s", "t", "a", "g", "i", "n", "g">>,
                  <<"p", "r", "o", "d">>},
   region : Regions]

\* the purposes of the four DynamoDB tables of the stack
Purposes ==
  {<<"R", "e", "p", "o", "r", "t", "R", "u", "n", "s">>,
   <<"V", "a", "l", "i", "d", "a", "t", "i", "o", "n", "R", "e", "s", "u", "l", "t", "s">>,
   <<"A", "c", "c", "u", "r", "a", "c", "y", "S", "c", "o", "r", "e", "s">>,
   <<"R", "e", "c", "o", "r", "d", "S", "c", "o", "r", "e", "s">>}

DevConfig ==
  [environment |-> <<"d", "e", "v">>,
   region |-> <<"u", "s", "-", "e", "a", "s", "t", "-", "1">>]

\* the stack's naming before any table is named
InitNamed ==
  /\ naming = EmirNaming(DevConfig)
  /\ tableNames = {}

-----------------------------------------------------------------------------
\* The validation pipeline (Step Functions state machine)

MaxRetries == 3

Tasks == {"profiling", "completeness", "format", "logical", "scoring",
          "report"}

\* Phase 2-4: the branches of the parallel state
Branches == {"completeness", "format", "logical"}

States == {"Phase1", "Parallel", "Scoring", "ReportGeneration",
           "Notification", "End", "Failed"}

\* the state whose Lambda a task is
TaskState(t) ==
  CASE t = "profiling" -> "Phase1"
    [] t \in Branches  -> "Parallel"
    [] t = "scoring"   -> "Scoring"
    [] t = "report"    -> "ReportGeneration"

\* sort key (validationType#fieldName) of the result a validator writes
ValidationKey(t) ==
  CASE t = "completeness" -> "COMPLETENESS#UTI"
    [] t = "format"       -> "FORMAT#LEI_COUNTERPARTY_1"
    [] t = "logical"      -> "LOGICAL#DATE_SEQUENCE"

ValidationKeys == {ValidationKey(t) : t \in Branches}

\* the result a validator computes from the snapshot
ValidationResult(t) == [severity |-> "CRITICAL", errorCount |-> batch[t]]

NoTime == -1

Terminal == {"COMPLETED", "FAILED"}

EmptyTable == [k \in ValidationKeys |-> <<>>]

\* a table that keeps every delivery under the key
PutItemAppend(table, key, item) == [table EXCEPT ![key] = Append(@, item)]

\* PutItem on a table keyed by (reportExecutionId, validationKey): the item
\* replaces whatever is stored under the key
PutItem(table, key, item) == [table EXCEPT ![key] = <<item>>]

\* Query of all results of the run, in sort key order
ReadItems(table) ==
  table["COMPLETENESS#UTI"] \o table["FORMAT#LEI_COUNTERPARTY_1"]
    \o table["LOGICAL#DATE_SEQUENCE"]

\* a run item on which the last writer wins
UpdateReportRunLastWriterWins(run, update) == update

\* updateReportRunStatus and the other writes of the run's item: a run in a
\* terminal status is immutable
UpdateReportRun(run, update) ==
  IF run.status \in Terminal THEN run ELSE update

\* a writer that puts the item back as it read it when the run began, with
\* its own phase added
RecordPhaseFromSnapshot(run, t, now) ==
  [run EXCEPT !.status = "IN_PROGRESS",
              !.phaseTime = [u \in Tasks |-> IF u = t THEN now ELSE NoTime]]

\* the update that records the completion of a phase on the run's item
RecordPhase(run, t, now) ==
  [run EXCEPT !.status = "IN_PROGRESS", !.phaseTime[t] = now]

\* the time of a write: later than every time recorded on the run so far
Now ==
  LET times == {reportRun.phaseTime[t] : t \in Tasks} \cup {reportRun.endTime}
  IN  1 + CHOOSE m \in times : \A x \in times : x <= m

\* a retry policy that allows one retry too many
CanRetryOnceMore(task) == task.retries <= MaxRetries

\* Retry: 3 times
CanRetry(task) == task.retries < MaxRetries

\* a parallel state that completes with its first branch
BarrierOpenAny(l) == \E b \in Branches : l[b].st = "succeeded"

\* "Wait for all 3 to complete"
BarrierOpen(l) == \A b \in Branches : l[b].st = "succeeded"

\* a Catch that swallows the failure and leaves the execution where it is
OnExhaustedSwallow(s) == s

\* a parallel state without a Catch: the barrier waits for the failed branch
OnExhaustedWaitAtBarrier(s) == IF s = "Parallel" THEN s ELSE "Failed"

\* Catch: a task that failed after its last retry fails the execution
OnExhausted(s) == "Failed"

\* the flow of the state machine
NextState(s, l) ==
  CASE s = "Phase1"           -> "Parallel"
    [] s = "Parallel"         -> IF BarrierOpen(l) THEN "Scoring" ELSE "Parallel"
    [] s = "Scoring"          -> "ReportGeneration"
    [] s = "ReportGeneration" -> "Notification"
    [] s = "Notification"     -> "End"
    [] OTHER                  -> s

\* entering a state invokes its Lambdas
Start(l, s) ==
  [t \in Tasks |-> IF TaskState(t) = s
                   THEN [st |-> "running", retries |-> 0] ELSE l[t]]

Idle == [t \in Tasks |-> [st |-> "idle", retries |-> 0]]

\* what a Lambda invocation writes to the tables before it returns
Writes(t) ==
  IF t \in Branches
  THEN /\ store' = PutItem(store, ValidationKey(t), ValidationResult(t))
       /\ delivered' = delivered \cup {<<ValidationKey(t), ValidationResult(t)>>}
       /\ redelivered' =
            (redelivered
             \/ <<ValidationKey(t), ValidationResult(t)>> \in delivered)
       /\ UNCHANGED scores
  ELSE IF t = "scoring"
  THEN /\ scores' = OverallItem(ReadItems(store), reportRun.totalRecords)
       /\ UNCHANGED <<store, delivered, redelivered>>
  ELSE UNCHANGED <<store, delivered, redelivered, scores>>

NoWrites == UNCHANGED <<store, delivered, redelivered, scores>>

\* the item the data loader creates for a run
NewReportRun ==
  [status       |-> "INITIATED",
   totalRecords |-> MaxBatchRecords,
   phaseTime    |-> [t \in Tasks |-> NoTime],
   endTime      |-> NoTime,
   overallScore |-> NoScore]

NoError == "none"

\* a header that lists the columns in a different order
HeaderMatchesAnyOrder(h) ==
  /\ Len(h) = Len(getEmirFieldSchema)
  /\ {h[i] : i \in 1..Len(h)} = FieldNameSet

\* the header row is the schema's field names in order
HeaderMatches(h) == h = getEmirFieldSchema

\* the header rows of the files that may be uploaded: the schema's, one
\* with two columns exchanged, one without the last column and one with an
\* additional column
UploadInputs ==
  << getEmirFieldSchema,
     [getEmirFieldSchema EXCEPT ![1] = getEmirFieldSchema[2],
                                ![2] = getEmirFieldSchema[1]],
     SubSeq(getEmirFieldSchema, 1, Len(getEmirFieldSchema) - 1),
     Append(getEmirFieldSchema, "extra_column") >>

\* the header row of an uploaded file
Header(file) == UploadInputs[file]

\* the file passed the data loader's header check
InitLoaded ==
  /\ upload = 1
  /\ runError = NoError

InitPipelineWith(n) ==
  /\ sfnState = "Phase1"
  /\ lambda = Start(Idle, "Phase1")
  /\ reportRun = NewReportRun
  /\ batch = [t \in Branches |-> n]
  /\ store = EmptyTable
  /\ scores = NoScore
  /\ cancelled = FALSE
  /\ repeats = 0
  /\ delivered = {}
  /\ redelivered = FALSE
  /\ ruleErrors = {}

InitPipeline == \E n \in 0..MaxBatchRecords : InitPipelineWith(n)

InitScoring ==
  /\ results = <<>>
  /\ total = 1
  /\ scored = NoScore
  /\ runs = 0
  /\ rec = CleanRecord
  /\ dayRows = <<>>

\* a Lambda returns successfully and the execution moves on
TaskSucceed(t) ==
  /\ sfnState = TaskState(t)
  /\ lambda[t].st = "running"
  /\ Writes(t)
  /\ LET l1   == [lambda EXCEPT ![t].st = "succeeded"]
         next == NextState(sfnState, l1)
     IN  /\ sfnState' = next
         /\ lambda' = IF next # sfnState THEN Start(l1, next) ELSE l1
  /\ reportRun' = UpdateReportRun(reportRun, RecordPhase(reportRun, t, Now))
  /\ UNCHANGED <<batch, cancelled, repeats>>

\* a Lambda invocation fails, before or after it wrote its output
TaskFail(t, wrote) ==
  /\ sfnState = TaskState(t)
  /\ lambda[t].st = "running"
  /\ IF wrote THEN Writes(t) ELSE NoWrites
  /\ IF CanRetry(lambda[t])
     THEN /\ lambda' = [lambda EXCEPT ![t].retries = @ + 1]
          /\ UNCHANGED <<sfnState, reportRun>>
     ELSE /\ lambda' = [lambda EXCEPT ![t].st = "failed"]
          /\ sfnState' = OnExhausted(sfnState)
          /\ reportRun' = UpdateReportRun(reportRun,
                            [reportRun EXCEPT !.status = "FAILED",
                                              !.endTime = Now])
  /\ UNCHANGED <<batch, cancelled, repeats>>

\* a Lambda still running when the execution failed finishes its work
LateFinish(t) ==
  /\ sfnState = "Failed"
  /\ lambda[t].st = "running"
  /\ Writes(t)
  /\ lambda' = [lambda EXCEPT ![t].st = "stopped"]
  /\ reportRun' = UpdateReportRun(reportRun,
                    [reportRun EXCEPT !.phaseTime[t] = Now])
  /\ UNCHANGED <<sfnState, batch, cancelled, repeats>>

\* Phase 7: the completion event is sent and the execution ends
Notify ==
  /\ sfnState = "Notification"
  /\ sfnState' = NextState(sfnState, lambda)
  /\ reportRun' = UpdateReportRun(reportRun,
                    [reportRun EXCEPT !.status = "COMPLETED",
                                      !.endTime = Now,
                                      !.overallScore = scores])
  /\ UNCHANGED <<lambda, batch, store, scores, cancelled, repeats,
                 delivered, redelivered>>

\* a cancellation that discards the findings written so far
CancelDiscardingFindings ==
  /\ ~cancelled
  /\ cancelled' = TRUE
  /\ sfnState' = IF sfnState \in {"End", "Failed"} THEN sfnState ELSE "Failed"
  /\ reportRun' = UpdateReportRun(reportRun,
                    [reportRun EXCEPT !.status = "FAILED", !.endTime = Now])
  /\ store' = EmptyTable
  /\ UNCHANGED <<lambda, batch, scores, repeats, delivered, redelivered>>

\* a cancellation signal: the run is marked FAILED
Cancel ==
  /\ ~cancelled
  /\ cancelled' = TRUE
  /\ sfnState' = IF sfnState \in {"End", "Failed"} THEN sfnState ELSE "Failed"
  /\ reportRun' = UpdateReportRun(reportRun,
                    [reportRun EXCEPT !.status = "FAILED", !.endTime = Now])
  /\ UNCHANGED <<lambda, batch, store, scores, repeats, delivered,
                 redelivered>>

\* the sink-call retry delivers the last status update once more
RepeatStatusUpdate ==
  /\ repeats < MaxRepeats
  /\ reportRun.status # "INITIATED"
  /\ repeats' = repeats + 1
  /\ reportRun' = UpdateReportRun(reportRun,
                    [reportRun EXCEPT !.endTime =
                       IF reportRun.status \in Terminal THEN Now ELSE @])
  /\ UNCHANGED <<sfnState, lambda, batch, store, scores, cancelled,
                 delivered, redelivered>>

Init ==
  InitPipeline /\ InitLoaded /\ InitScoring /\ InitValidation /\ InitNamed

Next ==
  \/ \E t \in Tasks : TaskSucceed(t) /\ UNCHANGED <<loaderVars, namingVars, errorVars, scoringVars, validationVars>>
  \/ \E t \in Tasks, wrote \in BOOLEAN :
       /\ (wrote => t \in Branches \cup {"scoring"})
       /\ TaskFail(t, wrote)
       /\ UNCHANGED <<loaderVars, namingVars, errorVars, scoringVars, validationVars>>
  \/ \E t \in Tasks : LateFinish(t) /\ UNCHANGED <<loaderVars, namingVars, errorVars, scoringVars, validationVars>>
  \/ Notify /\ UNCHANGED <<loaderVars, namingVars, errorVars, scoringVars, validationVars>>
  \/ Cancel /\ UNCHANGED <<loaderVars, namingVars, errorVars, scoringVars, validationVars>>
  \/ RepeatStatusUpdate /\ UNCHANGED <<loaderVars, namingVars, errorVars, scoringVars, validationVars>>

Spec == Init /\ [][Next]_vars

-----------------------------------------------------------------------------
\* The scoring engine on its own: inputs drawn from bounded sets

InitScoringInputs ==
  /\ InitPipelineWith(0)
  /\ InitLoaded
  /\ InitValidation
  /\ InitNamed
  /\ \/ /\ results \in ResultInputs
        /\ total \in 1..MaxRecords
        /\ rec = CleanRecord
        /\ dayRows = <<>>
     \/ /\ results = ExampleResults
        /\ total = ExampleTotalRecords
        /\ rec = CleanRecord
        /\ dayRows = <<>>
     \/ /\ results = <<>>
        /\ total = 1
        /\ rec \in RecordInputs
        /\ dayRows = <<>>
     \/ /\ results = <<>>
        /\ total = 1
        /\ rec = CleanRecord
        /\ dayRows \in DayInputs
  /\ scored = NoScore
  /\ runs = 0

\* one run of the scoring engine: it reads the validation results in some
\* order, computes the scores and stores them under their keys
RunScoringEngine ==
  /\ runs < MaxRuns
  /\ \E p \in ReadOrders(Len(results)) :
       scored' = [overall    |-> OverallItem(Reorder(results, p), total),
                  record     |-> RecordScoreRow(rec),
                  categories |-> CategoryScores(dayRows)]
  /\ runs' = runs + 1
  /\ UNCHANGED <<results, total, rec, dayRows>>

NextScoring ==
  /\ RunScoringEngine
  /\ UNCHANGED <<pipelineVars, loaderVars, namingVars, errorVars, validationVars>>

SpecScoring == InitScoringInputs /\ [][NextScoring]_vars

-----------------------------------------------------------------------------
\* The validators on their own: records drawn from bounded sets

InitValidationInputs ==
  /\ InitPipelineWith(0)
  /\ InitLoaded
  /\ InitScoring
  /\ InitNamed
  /\ \/ /\ trade \in TradeInputs(MaxEdits)
        /\ utiBatch = <<>>
        /\ other = NoTrade
     \/ /\ trade = EquityTrade
        /\ utiBatch \in UtiBatchInputs
        /\ other = NoTrade
     \/ /\ trade \in PairInputs
        /\ utiBatch = <<>>
        /\ other \in PairInputs
  /\ recordFindings = {}
  /\ duplicates = {}
  /\ done = {}
  /\ recordScore = NoScore
  /\ missingCount = NoCount
  /\ otherFindings = {}
  /\ parseErrors = [p \in Phases |-> 0]

\* a phase on the batch: every record that parses is evaluated, the others
\* are counted
RunPhase(phase) ==
  /\ phase \notin done
  /\ recordFindings' = recordFindings \cup Evaluate(phase, trade)
  /\ otherFindings' =
       IF other = NoTrade THEN otherFindings
       ELSE otherFindings \cup Evaluate(phase, other)
  /\ parseErrors' =
       [parseErrors EXCEPT ![phase] = ParseErrorCount(Records(trade, other))]
  /\ done' = done \cup {phase}
  /\ UNCHANGED <<trade, utiBatch, other, recordScore>>

\* Phase 2 on the batch, with the gaps query
RunCompleteness ==
  /\ RunPhase("COMPLETENESS")
  /\ missingCount' =
       IF RecordParseError(trade) THEN missingCount
       ELSE MissingMandatoryCount(trade)
  /\ UNCHANGED duplicates

\* Phase 3 on the batch and the uniqueness query on the day's records
RunFormat ==
  /\ RunPhase("FORMAT")
  /\ duplicates' = UtiDuplicates(utiBatch)
  /\ UNCHANGED missingCount

\* Phase 4 on the batch
RunLogical ==
  /\ RunPhase("LOGICAL")
  /\ UNCHANGED <<duplicates, missingCount>>

\* Phase 5 on the record, after the three validation phases
ScoreRecord ==
  /\ done = Phases
  /\ recordScore = NoScore
  /\ recordScore' = RecordScoreRow(ScoringView(trade, recordFindings))
  /\ UNCHANGED <<trade, utiBatch, recordFindings, duplicates, done,
                 missingCount, other, otherFindings, parseErrors>>

NextValidation ==
  \/ RunCompleteness /\ UNCHANGED <<pipelineVars, loaderVars, namingVars, errorVars, scoringVars>>
  \/ RunFormat /\ UNCHANGED <<pipelineVars, loaderVars, namingVars, errorVars, scoringVars>>
  \/ RunLogical /\ UNCHANGED <<pipelineVars, loaderVars, namingVars, errorVars, scoringVars>>
  \/ ScoreRecord /\ UNCHANGED <<pipelineVars, loaderVars, namingVars, errorVars, scoringVars>>

SpecValidation == InitValidationInputs /\ [][NextValidation]_vars

-----------------------------------------------------------------------------
\* The data loader in front of the pipeline

InitLoader ==
  /\ sfnState = "NotStarted"
  /\ lambda = Idle
  /\ reportRun = NewReportRun
  /\ batch \in {[t \in Branches |-> n] : n \in 0..MaxBatchRecords}
  /\ store = EmptyTable
  /\ scores = NoScore
  /\ cancelled = FALSE
  /\ repeats = 0
  /\ delivered = {}
  /\ redelivered = FALSE
  /\ ruleErrors = {}
  /\ upload \in 1..Len(UploadInputs)
  /\ runError = NoError
  /\ InitScoring
  /\ InitValidation
  /\ InitNamed

\* the data loader checks the header of the uploaded file, then starts the
\* execution; a header that differs from the schema fails the run
DataLoader ==
  /\ sfnState = "NotStarted"
  /\ IF HeaderMatches(Header(upload))
     THEN /\ sfnState' = "Phase1"
          /\ lambda' = Start(Idle, "Phase1")
          /\ UNCHANGED <<reportRun, runError>>
     ELSE /\ sfnState' = "Failed"
          /\ reportRun' = UpdateReportRun(reportRun,
                            [reportRun EXCEPT !.status = "FAILED",
                                              !.endTime = Now])
          /\ runError' = "SchemaMismatchError"
          /\ UNCHANGED lambda
  /\ UNCHANGED <<upload, batch, store, scores, cancelled, repeats,
                 delivered, redelivered>>

NextLoader ==
  \/ DataLoader /\ UNCHANGED <<namingVars, errorVars, scoringVars, validationVars>>
  \/ Next

SpecLoader == InitLoader /\ [][NextLoader]_vars

-----------------------------------------------------------------------------
\* One run of the pipeline under fair scheduling, with the errors of the
\* validators' rules told apart from the other failures of a Lambda

InitRun ==
  /\ InitPipelineWith(0)
  /\ InitLoaded
  /\ InitScoring
  /\ InitValidation
  /\ InitNamed

\* the failed invocations of a Lambda so far
FailedAttempts(task) == task.retries + (IF task.st = "failed" THEN 1 ELSE 0)

Failures(l) ==
  FailedAttempts(l["profiling"]) + FailedAttempts(l["completeness"])
  + FailedAttempts(l["format"]) + FailedAttempts(l["logical"])
  + FailedAttempts(l["scoring"]) + FailedAttempts(l["report"])

\* a validator that skips the broken rule and returns its other results
RuleEvaluationErrorSkippingRule(t) ==
  /\ TaskSucceed(t)
  /\ ruleErrors' = ruleErrors \cup {t}

\* a rule of validator t is broken: the invocation fails without a result
RuleEvaluationError(t) ==
  /\ TaskFail(t, FALSE)
  /\ ruleErrors' = ruleErrors \cup {t}

\* an invocation that succeeds has evaluated every rule
Succeed(t) ==
  /\ TaskSucceed(t)
  /\ ruleErrors' = ruleErrors \ {t}

\* an invocation that finishes late has evaluated every rule as well
FinishLate(t) ==
  /\ LateFinish(t)
  /\ ruleErrors' = ruleErrors \ {t}

NextRun ==
  \/ \E t \in Tasks :
       Succeed(t) /\ UNCHANGED <<loaderVars, namingVars, scoringVars, validationVars>>
  \/ \E t \in Branches :
       /\ Failures(lambda) < MaxFailures
       /\ RuleEvaluationError(t)
       /\ UNCHANGED <<loaderVars, namingVars, scoringVars, validationVars>>
  \/ \E t \in Tasks, wrote \in BOOLEAN :
       /\ Failures(lambda) < MaxFailures
       /\ (wrote => t \in Branches \cup {"scoring"})
       /\ TaskFail(t, wrote)
       /\ UNCHANGED <<loaderVars, namingVars, errorVars, scoringVars, validationVars>>
  \/ \E t \in Tasks :
       FinishLate(t) /\ UNCHANGED <<loaderVars, namingVars, scoringVars, validationVars>>
  \/ Notify /\ UNCHANGED <<loaderVars, namingVars, errorVars, scoringVars, validationVars>>

\* Step Functions runs the execution on and every invocation returns or
\* times out: no step that can be taken is put off forever
SpecRun == InitRun /\ [][NextRun]_vars /\ WF_vars(NextRun)

-----------------------------------------------------------------------------
\* The stack naming its DynamoDB tables, for every configuration

InitNaming ==
  /\ InitPipelineWith(0)
  /\ InitLoaded
  /\ InitScoring
  /\ InitValidation
  /\ naming \in {EmirNaming(c) : c \in ConfigInputs}
  /\ tableNames = {}

\* the stack creates the table of a purpose under the name that naming.table gives
CreateTable(purpose) ==
  /\ \A r \in tableNames : r.purpose # purpose
  /\ tableNames' = tableNames \cup
       {[purpose |-> purpose, tableName |-> EmirNamingTable(naming, purpose)]}
  /\ UNCHANGED naming

NextNaming ==
  \E purpose \in Purposes :
    /\ CreateTable(purpose)
    /\ UNCHANGED <<pipelineVars, loaderVars, errorVars, scoringVars,
                   validationVars>>

SpecNaming == InitNaming /\ [][NextNaming]_vars

-----------------------------------------------------------------------------
\* Properties of the pipeline (checked under Spec)

\* C1: the run is in the scoring state, has invoked the scoring Lambda or
\* has stored an overall score only if the format branch and the logical
\* branch have both succeeded; one branch alone never opens the barrier.
C1_ScoringOnlyAfterBothBranches ==
  (\/ sfnState = "Scoring"
   \/ lambda["scoring"].st # "idle"
   \/ scores # NoScore
   \/ reportRun.overallScore # NoScore)
  => /\ lambda["format"].st = "succeeded"
     /\ lambda["logical"].st = "succeeded"

\* the run reached the scoring state after the format branch needed retries
C1_Witness ==
  /\ sfnState = "Scoring"
  /\ lambda["format"].retries = 2
  /\ lambda["logical"].retries = 0

\* C2: once the format or the logical branch has failed after its last
\* retry, the run is FAILED, the scoring Lambda has not been invoked and no
\* overall score is stored, whatever the other branch did or does.
C2_BranchFailureFailsRun ==
  (lambda["format"].st = "failed" \/ lambda["logical"].st = "failed")
  => /\ sfnState = "Failed"
     /\ reportRun.status = "FAILED"
     /\ lambda["scoring"].st = "idle"
     /\ scores = NoScore
     /\ reportRun.overallScore = NoScore

\* the format branch failed after the logical branch had succeeded
C2_Witness ==
  /\ lambda["format"].st = "failed"
  /\ lambda["logical"].st = "succeeded"
  /\ lambda["completeness"].st = "stopped"

\* C3 (as claimed): format and logical validation are not started before
\* completeness validation has succeeded.
C3_ValidationAfterCompleteness ==
  \A b \in {"format", "logical"} :
    lambda[b].st # "idle" => lambda["completeness"].st = "succeeded"

\* C4: once the run's status is COMPLETED or FAILED, no step changes its
\* status, its per-phase timestamps, its end time or its overall score.
C4_TerminalRunImmutable ==
  [][reportRun.status \in Terminal =>
       /\ reportRun'.status = reportRun.status
       /\ reportRun'.phaseTime = reportRun.phaseTime
       /\ reportRun'.endTime = reportRun.endTime
       /\ reportRun'.overallScore = reportRun.overallScore]_vars

\* a cancellation signal and a repeated status update reached a run that
\* had completed
C4_Witness ==
  /\ reportRun.status = "COMPLETED"
  /\ cancelled
  /\ repeats > 0

\* C5: a phase is retried at most 3 times, is declared failed only when its
\* 3 retries are used up, and is not invoked again once it has succeeded.
C5_RetryAtMostThreeTimes ==
  [][\A t \in {"completeness", "format", "logical", "scoring"} :
       /\ lambda'[t].retries <= 3
       /\ (lambda'[t].st = "failed" => lambda[t].retries = 3)
       /\ (lambda[t].st = "succeeded" => lambda'[t] = lambda[t])]_vars

\* scoring failed after its last retry, after format had succeeded on its
\* last retry
C5_Witness ==
  /\ lambda["scoring"].st = "failed"
  /\ lambda["format"].st = "succeeded"
  /\ lambda["format"].retries = 3

\* the table holding each delivered finding exactly once
OnceTable(findings) ==
  [k \in ValidationKeys |->
     IF \E f \in findings : f[1] = k
     THEN <<(CHOOSE f \in findings : f[1] = k)[2]>>
     ELSE <<>>]

\* C6: however often a finding was delivered, the validation results table
\* holds it once, and the overall score stored is the score of the findings
\* delivered once.
C6_RedeliveryIsIdempotent ==
  /\ store = OnceTable(delivered)
  /\ scores # NoScore =>
       scores = OverallItem(ReadItems(OnceTable(delivered)),
                            reportRun.totalRecords)

\* a finding with errors was delivered again by a retry and the run was
\* scored
C6_Witness ==
  /\ redelivered
  /\ scores # NoScore
  /\ batch["format"] > 0

-----------------------------------------------------------------------------
\* Properties of the scoring engine (checked under SpecScoring)

\* the findings the scoring query attributes to the record, per severity
Attributed(t, severity) ==
  LET joined(row) == IF t.uti_null \/ row = NoRow THEN 0 ELSE row[severity]
      missing == IF severity = "CRITICAL"
                 THEN Cardinality({f \in {"uti_null", "counterparty_1_null",
                                          "action_type_null"} : t[f]})
                 ELSE 0
  IN  missing + joined(t.fmt) + joined(t.log)

FormulaScore(penalty, totalRecs) ==
  RatMin100(RatMax0(
    IntMinusRat(100, RatTimesInt(Rat(penalty, totalRecs * 100), 100))))

\* the penalty of the findings counted on the stored overall score
CountedPenalty(overall) ==
  overall.criticalErrorCount * 10 + overall.majorErrorCount * 5
    + overall.minorErrorCount * 2

IsExample == results = ExampleResults /\ total = ExampleTotalRecords

\* C8 (as claimed): the overall score is the clamped formula, and the worked
\* example has penalty 63,330, score 99.9367 and traffic light GREEN.
C8_OverallScoreAsClaimed ==
  scored # NoScore =>
    /\ scored.overall.overallAccuracyScore =
         FormulaScore(CountedPenalty(scored.overall), total)
    /\ IsExample =>
         /\ CountedPenalty(scored.overall) = 63330
         /\ scored.overall.overallAccuracyScore = Rat(999367, 10000)
         /\ scored.overall.trafficLight = "GREEN"

\* C8 (amended): the overall score is the clamped formula, and the worked
\* example has penalty 63,330, score 99.93667, which is 99.9367 when rounded
\* to four decimals, and traffic light GREEN.
C8_OverallScore ==
  scored # NoScore =>
    /\ scored.overall.overallAccuracyScore =
         FormulaScore(CountedPenalty(scored.overall), total)
    /\ IsExample =>
         /\ CountedPenalty(scored.overall) = 63330
         /\ scored.overall.overallAccuracyScore = Rat(9993667, 100000)
         /\ RoundTo4(scored.overall.overallAccuracyScore) = 999367
         /\ scored.overall.trafficLight = "GREEN"

\* the worked example was scored
C8_Witness == scored # NoScore /\ IsExample

C10_RescoringChangesNothing ==
  [][scored # NoScore => scored' = scored]_vars

\* the engine ran twice on results whose order matters to a reader
C10_Witness ==
  /\ runs = 2
  /\ Len(results) >= 2
  /\ results[1] # results[Len(results)]
  /\ scored.overall.overallAccuracyScore # Rat(100, 1)

-----------------------------------------------------------------------------
\* Properties of the validators (checked under SpecValidation)

\* the three validation phases have run on the record and it is scored
Validated == done = Phases /\ recordScore # NoScore

\* a value that is populated and passes the checks of its own field
FieldValid(f, v) ==
  /\ ~Missing(v)
  /\ f \in LeiFields => ~LeiFormatError(v)
  /\ f = "isin" => ~IsinFormatError(v)
  /\ f = "notional_currency_1" => ~CurrencyFormatError(v)
  /\ f = "notional_amount_1" => v.n >= 0 /\ v.n <= NotionalThreshold

AllPresentAndValid(t) == \A f \in RuleFields : FieldValid(f, t[f])

\* execution <= effective <= expiration, early termination < expiration,
\* clearing less than six days from execution
DatesInSequence(t) ==
  /\ t["execution_timestamp"].n <= t["effective_date"].n * SecondsPerDay
  /\ t["effective_date"].n <= t["expiration_date"].n
  /\ t["early_termination_date"].n < t["expiration_date"].n
  /\ Abs(t["clearing_timestamp"].n - t["execution_timestamp"].n)
       < (ClearingPeriodDays + 1) * SecondsPerDay

\* not under a clearing obligation while not cleared
ClearingFlagsAgree(t) ==
  ~(Is(t["clearing_obligation"], Text.BoolTrue) /\ Is(t["cleared"], Text.BoolFalse))

\* C11 as stated: a record in which every field is present and individually
\* valid has no finding and accuracy score 100.
C11_AllPresentValidAsClaimed ==
  (Validated /\ AllPresentAndValid(trade))
    => /\ recordFindings = {}
       /\ recordScore.accuracy_score = 100

\* C11: a record in which every field is present and individually valid,
\* whose dates are in sequence, whose clearing flags agree and whose asset
\* class is not SWAP has no finding from the completeness, format and
\* logical validators and accuracy score 100; with asset class SWAP it has
\* the swap leg finding, both rates of each leg being populated.
C11_AllPresentValid ==
  (Validated /\ AllPresentAndValid(trade)
   /\ DatesInSequence(trade) /\ ClearingFlagsAgree(trade))
    => IF Is(trade["asset_class"], Text.Swap)
       THEN /\ recordFindings = {RecordFinding("SWAP_LEG_ERROR", "MAJOR")}
            /\ recordScore.accuracy_score = 95
       ELSE /\ recordFindings = {}
            /\ recordScore.accuracy_score = 100

\* an option with type, style and strike populated was validated and scored
C11_Witness ==
  /\ Validated
  /\ AllPresentAndValid(trade)
  /\ DatesInSequence(trade)
  /\ ClearingFlagsAgree(trade)
  /\ Is(trade["asset_class"], Text.Option)
  /\ recordFindings = {}
  /\ recordScore.accuracy_score = 100

\* fields outside the mandatory list
OptionalFields == RuleFields \ (MandatoryFields \cup ProductIdentifierFields)

\* the populated values that field f takes in the model's records
PopulatedValues(f) ==
  {v \in {b[f] : b \in BaseTrades} \cup FieldValues(f) : ~Missing(v)}

\* the findings of the three validators on a record
ValidateRecord(t) ==
  CompletenessFindings(t) \cup FormatFindings(t) \cup LogicalFindings(t)

\* t lacks f and is otherwise fully valid: with f populated it has no finding
OtherwiseValid(t, f) ==
  /\ IsNull(t[f])
  /\ \E v \in PopulatedValues(f) : ValidateRecord([t EXCEPT ![f] = v]) = {}

\* the cross-field rule that requires the absent field f of t, "none" if
\* no rule does
RuleRequiring(t, f) ==
  CASE f = "notional_currency_1" /\ ~IsNull(t["notional_amount_1"])
         -> "NOTIONAL_ERROR"
    [] f = "notional_amount_1" /\ ~IsNull(t["notional_currency_1"])
         -> "NOTIONAL_ERROR"
    [] f = "valuation_currency" /\ ~IsNull(t["valuation_amount"])
         -> "NOTIONAL_ERROR"
    [] f \in {"central_counterparty", "clearing_timestamp"}
       /\ Is(t["cleared"], Text.BoolTrue)
         -> "CLEARING_LOGIC_ERROR"
    [] f \in OptionFields /\ Is(t["asset_class"], Text.Option)
       /\ (\E g \in OptionFields : ~IsNull(t[g]))
         -> "OPTION_INCOMPLETE_DATA"
    [] f \in SwapLegFields /\ Is(t["asset_class"], Text.Swap)
         -> "SWAP_LEG_ERROR"
    [] OTHER -> "none"

MissingFindings(f) ==
  {x \in recordFindings : x.phase = "COMPLETENESS" /\ x.field = f}

BatchUtis == {utiBatch[i].uti : i \in 1..Len(utiBatch)}

\* the rows of the uniqueness query for UTI value u
DuplicateRows(u) == {d \in duplicates : d.uti = u}

\* C14 as stated: a group of k >= 2 records sharing one UTI value has k - 1
\* duplicate findings, one for every record after the first.
C14_DuplicatesPerRecordAsClaimed ==
  "FORMAT" \in done =>
    \A u \in BatchUtis \ {Null} :
      UtiCount(utiBatch, u) >= 2
        => Cardinality(DuplicateRows(u)) = UtiCount(utiBatch, u) - 1

\* C14: UTI uniqueness is evaluated over all records of the day, whatever
\* their shards: a UTI value shared by k >= 2 records has exactly one
\* duplicate row, which carries the count k, so two records sharing a UTI
\* give exactly one finding; a UTI that occurs once and a NULL uti have no
\* row.
C14_DuplicatesAcrossShards ==
  "FORMAT" \in done =>
    /\ \A u \in BatchUtis \ {Null} :
         DuplicateRows(u) =
           IF UtiCount(utiBatch, u) >= 2
           THEN {[uti |-> u, duplicate_count |-> UtiCount(utiBatch, u)]}
           ELSE {}
    /\ DuplicateRows(Null) = {}

\* two records of different shards share a UTI and the query has run
C14_Witness ==
  /\ "FORMAT" \in done
  /\ \E i, j \in 1..Len(utiBatch) :
       /\ i # j
       /\ utiBatch[i].uti = utiBatch[j].uti
       /\ utiBatch[i].shard # utiBatch[j].shard
       /\ UtiCount(utiBatch, utiBatch[i].uti) = 2
       /\ Cardinality(DuplicateRows(utiBatch[i].uti)) = 1

\* the UTI values that more than one record of the day carries
DuplicateGroups ==
  {u \in BatchUtis \ {Null} : UtiCount(utiBatch, u) >= 2}

\* C15: the uniqueness query emits one finding per duplicate group,
\* whatever the size of the group: there are as many rows as groups, and
\* every row belongs to a group of its own.
C15_OneFindingPerGroup ==
  "FORMAT" \in done =>
    /\ Cardinality(duplicates) = Cardinality(DuplicateGroups)
    /\ \A u \in DuplicateGroups : Cardinality(DuplicateRows(u)) = 1
    /\ \A d \in duplicates : d.uti \in DuplicateGroups

\* three records share a UTI and the query has run
C15_Witness ==
  /\ "FORMAT" \in done
  /\ \E u \in DuplicateGroups :
       /\ UtiCount(utiBatch, u) = 3
       /\ Cardinality(DuplicateRows(u)) = 1

\* the date sequence findings of the record
DateSequenceFindings ==
  {x \in recordFindings : x.rule = "DATE_SEQUENCE_ERROR"}

\* the record's execution timestamp, effective date and expiration date
\* are populated
DatesPresent(t) ==
  /\ ~IsNull(t["execution_timestamp"])
  /\ ~IsNull(t["effective_date"])
  /\ ~IsNull(t["expiration_date"])

\* execution later than the effective date, effective date later than the
\* expiration date, or an early termination date not before the expiration
OrderViolated(t) ==
  \/ t["execution_timestamp"].n > t["effective_date"].n * SecondsPerDay
  \/ t["effective_date"].n > t["expiration_date"].n
  \/ /\ ~IsNull(t["early_termination_date"])
     /\ t["early_termination_date"].n >= t["expiration_date"].n

\* a cleared record whose clearing timestamp is six days or more from its
\* execution timestamp
ClearedLate(t) ==
  /\ Is(t["cleared"], Text.BoolTrue)
  /\ ~IsNull(t["clearing_timestamp"])
  /\ Abs(t["clearing_timestamp"].n - t["execution_timestamp"].n)
       >= (ClearingPeriodDays + 1) * SecondsPerDay

\* C16 as stated: a record with its dates present has exactly one CRITICAL
\* DATE_SEQUENCE_ERROR finding if one of the three orderings is violated,
\* and none otherwise.
C16_DateSequenceAsClaimed ==
  ("LOGICAL" \in done /\ DatesPresent(trade))
    => DateSequenceFindings =
         IF OrderViolated(trade)
         THEN {RecordFinding("DATE_SEQUENCE_ERROR", "CRITICAL")}
         ELSE {}

\* C16: a record with its dates present has exactly one CRITICAL LOGICAL
\* finding DATE_SEQUENCE_ERROR if execution timestamp > effective date, or
\* effective date > expiration date, or the early termination date is
\* present and >= expiration date, or the record is cleared and its
\* clearing timestamp is more than 5 days from the execution timestamp;
\* it has none otherwise, equal values satisfying the two <= relations; a
\* record violating several of these still has one finding.
C16_DateSequence ==
  ("LOGICAL" \in done /\ DatesPresent(trade))
    => DateSequenceFindings =
         IF OrderViolated(trade) \/ ClearedLate(trade)
         THEN {RecordFinding("DATE_SEQUENCE_ERROR", "CRITICAL")}
         ELSE {}

\* a record whose effective date and early termination date both lie after
\* its expiration date has been validated
C16_Witness ==
  /\ "LOGICAL" \in done
  /\ DatesPresent(trade)
  /\ trade["effective_date"].n > trade["expiration_date"].n
  /\ ~IsNull(trade["early_termination_date"])
  /\ trade["early_termination_date"].n >= trade["expiration_date"].n
  /\ Cardinality(DateSequenceFindings) = 1

\* the format findings of the record for field f
FormatFindingsOf(f) ==
  {x \in recordFindings : x.phase = "FORMAT" /\ x.field = f}

\* exactly 20 characters, each an uppercase letter or a digit
TwentyUpperAlphanumerics(v) ==
  /\ Len(v.s) = 20
  /\ \A i \in 1..Len(v.s) : v.s[i] \in UpperChars \cup DigitChars

\* C17: for every LEI field, a non-empty value that is not exactly 20
\* uppercase alphanumeric characters has exactly one CRITICAL FORMAT
\* finding for that field, and a value of exactly 20 uppercase alphanumeric
\* characters has none.
C17_LeiFormat ==
  "FORMAT" \in done =>
    \A f \in LeiFields :
      ~Missing(trade[f])
        => FormatFindingsOf(f) =
             IF TwentyUpperAlphanumerics(trade[f])
             THEN {}
             ELSE {Finding("FORMAT", "FORMAT_ERROR", f, "CRITICAL")}

\* a record whose counterparty_1 is "1234" has been validated
C17_Witness ==
  /\ "FORMAT" \in done
  /\ trade["counterparty_1"] = Str(Text.LeiShort)
  /\ FormatFindingsOf("counterparty_1") =
       {Finding("FORMAT", "FORMAT_ERROR", "counterparty_1", "CRITICAL")}

-----------------------------------------------------------------------------
\* Properties of the schema and of the data loader

\* C18: the column list returned by getEmirFieldSchema has exactly 203
\* entries with pairwise distinct names, so that the Schema Registry load
\* succeeds on it (the uploaded file of the validation runs carries
\* exactly this column list as its header).
C18_SchemaHas203Fields ==
  Header(upload) = getEmirFieldSchema
    => /\ Len(Header(upload)) = ExpectedFieldCount
       /\ Cardinality(FieldNameSet) = Len(Header(upload))
       /\ SchemaLoads(Header(upload))

\* C19: when the header row of the uploaded file is not the schema's field
\* names in order, the run halts in FAILED with a SchemaMismatchError as
\* soon as the data loader has checked it: no finding is emitted, no
\* validation phase is started or retried, scoring is never entered and no
\* score is published.
C19_HeaderMismatchHalts ==
  ~(Header(upload) = getEmirFieldSchema) =>
    /\ sfnState \in {"NotStarted", "Failed"}
    /\ sfnState = "Failed" => reportRun.status = "FAILED"
    /\ (sfnState = "Failed" /\ ~cancelled)
         => runError = "SchemaMismatchError"
    /\ \A t \in Tasks : lambda[t] = [st |-> "idle", retries |-> 0]
    /\ store = EmptyTable
    /\ delivered = {}
    /\ scores = NoScore
    /\ reportRun.overallScore = NoScore
    /\ reportRun.status # "COMPLETED"

\* a file whose header has two columns exchanged was loaded and the run
\* failed
C19_Witness ==
  /\ upload = 2
  /\ runError = "SchemaMismatchError"
  /\ sfnState = "Failed"
  /\ reportRun.status = "FAILED"

\* C20: a cancellation that arrives in a non-terminal state marks the run
\* FAILED, and it stays FAILED; after the cancellation no Lambda is invoked
\* or retried, a running one only finishes its work, and every finding in
\* the validation results table stays there.
C20_CancellationKeepsFindings ==
  [][/\ (~cancelled /\ cancelled' /\ reportRun.status \notin Terminal)
          => /\ reportRun'.status = "FAILED"
             /\ sfnState' = "Failed"
             /\ store' = store
     /\ cancelled
          => /\ reportRun.status = "FAILED" => reportRun'.status = "FAILED"
             /\ \A t \in Tasks :
                  /\ lambda'[t].retries = lambda[t].retries
                  /\ \/ lambda'[t].st = lambda[t].st
                     \/ lambda[t].st = "running" /\ lambda'[t].st = "stopped"
             /\ \A k \in ValidationKeys :
                  store[k] # <<>> => store'[k] = store[k]
             /\ delivered \subseteq delivered']_vars

\* the run was cancelled while a validation was running; the validation
\* finished its work and its finding is in the table of the FAILED run
C20_Witness ==
  /\ cancelled
  /\ reportRun.status = "FAILED"
  /\ \A t \in Tasks : lambda[t].st # "failed"
  /\ \E t \in Branches :
       /\ lambda[t].st = "stopped"
       /\ store[ValidationKey(t)] # <<>>
  /\ \E t \in Branches :
       /\ lambda[t].st = "succeeded"
       /\ store[ValidationKey(t)] # <<>>

\* the findings of the completeness phase among the record's findings
CompletenessFindingsOf(fs) == {x \in fs : x.phase = "COMPLETENESS"}

\* C21 (as claimed): for every mandatory field, a record in which the field
\* is the empty string gets from the completeness phase the findings and
\* the count of missing mandatory fields that it would get with the field
\* absent.
C21_EmptyCountsAsMissing ==
  "COMPLETENESS" \in done =>
    \A f \in MandatoryFields :
      Is(trade[f], <<>>) =>
        LET absent == [trade EXCEPT ![f] = Null]
        IN  /\ CompletenessFindingsOf(recordFindings)
                 = CompletenessFindings(absent)
            /\ missingCount = MissingMandatoryCount(absent)

\* the fields that a format query reads
FormatRuleFields == LeiFields \cup {"isin", "notional_currency_1"}

\* C22 (as claimed): a record whose value for a field with a format rule is
\* the empty string gets no FORMAT finding for that field.
C22_EmptyIsAbsentForFormat ==
  "FORMAT" \in done =>
    \A f \in FormatRuleFields :
      Is(trade[f], <<>>) =>
        ~\E x \in recordFindings : x.phase = "FORMAT" /\ x.field = f

\* the option fields of the record that are populated
OptionPopulated(t) == {f \in OptionFields : ~IsNull(t[f])}

\* some but not all of type, style and strike are populated
OptionPartly(t) == OptionPopulated(t) \notin {{}, OptionFields}

\* the rates of the two legs
LegRates ==
  <<{"leg1_fixed_rate", "leg1_floating_rate"},
    {"leg2_fixed_rate", "leg2_floating_rate"}>>

\* the legs that do not have exactly one rate populated
BadLegs(t) ==
  {i \in 1..2 : Cardinality({f \in LegRates[i] : ~IsNull(t[f])}) # 1}

LogicalFindingsFor(rule) ==
  {x \in recordFindings : x.phase = "LOGICAL" /\ x.rule = rule}

\* C23 (as claimed): whatever the asset class, the record has a MAJOR
\* option finding exactly if its option fields are neither all present nor
\* all absent, and one MAJOR swap finding for each leg that does not have
\* exactly one rate populated.
C23_CoPresenceAnyAssetClassAsClaimed ==
  "LOGICAL" \in done =>
    /\ LogicalFindingsFor("OPTION_INCOMPLETE_DATA") # {}
         <=> OptionPartly(trade)
    /\ Cardinality(LogicalFindingsFor("SWAP_LEG_ERROR"))
         = Cardinality(BadLegs(trade))

\* C23: a record has the MAJOR finding OPTION_INCOMPLETE_DATA exactly if
\* its asset class is OPTION and its option fields are neither all
\* populated nor all NULL; it has the MAJOR finding SWAP_LEG_ERROR, once
\* for the record, exactly if its asset class is SWAP and some leg has both
\* rates or no rate populated.
C23_CoPresence ==
  "LOGICAL" \in done =>
    /\ LogicalFindingsFor("OPTION_INCOMPLETE_DATA")
         = (IF Is(trade["asset_class"], Text.Option) /\ OptionPartly(trade)
            THEN {RecordFinding("OPTION_INCOMPLETE_DATA", "MAJOR")}
            ELSE {})
    /\ LogicalFindingsFor("SWAP_LEG_ERROR")
         = (IF Is(trade["asset_class"], Text.Swap) /\ BadLegs(trade) # {}
            THEN {RecordFinding("SWAP_LEG_ERROR", "MAJOR")}
            ELSE {})

\* a swap without any rate on its two legs has the swap finding once
C23_Witness ==
  /\ "LOGICAL" \in done
  /\ Is(trade["asset_class"], Text.Swap)
  /\ BadLegs(trade) = {1, 2}
  /\ \A f \in SwapLegFields : IsNull(trade[f])
  /\ OptionPopulated(trade) = {}
  /\ LogicalFindingsFor("SWAP_LEG_ERROR")
       = {RecordFinding("SWAP_LEG_ERROR", "MAJOR")}

\* the record says that the trade was cleared
IsCleared(t) == Is(t["cleared"], Text.BoolTrue)

\* the record is under the clearing obligation
IsObliged(t) == Is(t["clearing_obligation"], Text.BoolTrue)

\* C24: the record has the MAJOR clearing finding exactly if it is cleared
\* and its central counterparty is missing, or it is cleared and its
\* clearing timestamp is missing, or it is under the clearing obligation
\* and its cleared flag is false; a record that is not cleared and not
\* under the obligation has no clearing finding, whatever its central
\* counterparty and clearing timestamp.
C24_ClearingConsistency ==
  "LOGICAL" \in done =>
    /\ RecordFinding("CLEARING_LOGIC_ERROR", "MAJOR") \in recordFindings
         <=> \/ IsCleared(trade) /\ Missing(trade["central_counterparty"])
             \/ IsCleared(trade) /\ Missing(trade["clearing_timestamp"])
             \/ IsObliged(trade) /\ Is(trade["cleared"], Text.BoolFalse)
    /\ LogicalFindingsFor("CLEARING_LOGIC_ERROR")
         \subseteq {RecordFinding("CLEARING_LOGIC_ERROR", "MAJOR")}
    /\ (~IsCleared(trade) /\ ~IsObliged(trade))
         => LogicalFindingsFor("CLEARING_LOGIC_ERROR") = {}

\* an uncleared trade without central counterparty and clearing timestamp
\* went through logical validation and has no clearing finding
C24_Witness ==
  /\ "LOGICAL" \in done
  /\ Is(trade["cleared"], Text.BoolFalse)
  /\ ~IsObliged(trade)
  /\ IsNull(trade["central_counterparty"])
  /\ IsNull(trade["clearing_timestamp"])
  /\ LogicalFindingsFor("CLEARING_LOGIC_ERROR") = {}

-----------------------------------------------------------------------------
\* Properties of the category scores (checked under SpecScoring)

\* the (row, field) pairs of a category, and those with a populated field
Pairs(c) == (1..Len(dayRows)) \X CategoryFields[c]

ValidPairs(c) == {p \in Pairs(c) : ~IsNull(dayRows[p[1]][p[2]])}

\* the rows in which every field of the category is populated
ValidRows(c) ==
  {i \in 1..Len(dayRows) : \A f \in CategoryFields[c] : <<i, f>> \in ValidPairs(c)}

\* 100 * a / b as a fraction in lowest terms
Percent(a, b) == Rat(100 * a, b)

\* C25 (as claimed): the category score is 100 times the fraction of valid
\* (record, field) pairs among all pairs of a record of the batch and a
\* field of the category.
C25_CategoryScorePerPairAsClaimed ==
  (scored # NoScore /\ dayRows # <<>>) =>
    \A c \in Categories :
      scored.categories[c]
        = Percent(Cardinality(ValidPairs(c)), Cardinality(Pairs(c)))

\* C25: the category score is 100 times the fraction of the records of the
\* batch in which every field of the category is populated; it lies in
\* [0, 100], and a record with one field of the category missing counts as
\* a whole invalid record.
C25_CategoryScorePerRecord ==
  (scored # NoScore /\ dayRows # <<>>) =>
    \A c \in Categories :
      LET score == scored.categories[c]
      IN  /\ score = Percent(Cardinality(ValidRows(c)), Len(dayRows))
          /\ score.n >= 0
          /\ score.n <= 100 * score.d
          /\ (\A i \in 1..Len(dayRows) :
                \E f \in CategoryFields[c] : IsNull(dayRows[i][f]))
               => score = Percent(0, 1)

\* two rows were scored, one complete and one without counterparty_1 only:
\* the identifier score is 50, where three of the four pairs are valid
C25_Witness ==
  /\ scored # NoScore
  /\ Len(dayRows) = 2
  /\ Cardinality(ValidPairs("critical_identifiers")) = 3
  /\ IsNull(dayRows[2]["counterparty_1"])
  /\ scored.categories["critical_identifiers"] = Percent(1, 2)

\* the findings a phase emitted among fs
FindingsOfPhase(fs, p) == {x \in fs : x.phase = p}

\* C26: after a phase has run on a batch, the phase's parse-error tally is
\* the number of records of the batch that do not parse, a record that
\* does not parse has no finding of the phase, and every other record of
\* the batch has the findings that the phase's rules give it; the phase
\* completes all the same.
C26_ParseErrorIsLocal ==
  \A p \in Phases :
    IF p \in done
    THEN /\ parseErrors[p]
              = Cardinality({i \in DOMAIN Records(trade, other) :
                               RecordParseError(Records(trade, other)[i])})
         /\ RecordParseError(trade) => FindingsOfPhase(recordFindings, p) = {}
         /\ ~RecordParseError(trade)
              => FindingsOfPhase(recordFindings, p) = PhaseFindings(p, trade)
         /\ other # NoTrade =>
              /\ RecordParseError(other)
                   => FindingsOfPhase(otherFindings, p) = {}
              /\ ~RecordParseError(other)
                   => FindingsOfPhase(otherFindings, p) = PhaseFindings(p, other)
    ELSE /\ parseErrors[p] = 0
         /\ FindingsOfPhase(recordFindings \cup otherFindings, p) = {}

\* the three phases ran on a batch whose first record does not parse and
\* whose second record lacks counterparty_1: one parse error per phase, no
\* finding for the first record, the missing-field finding for the second,
\* and the phases completed and the record was scored
C26_Witness ==
  /\ Validated
  /\ RecordParseError(trade)
  /\ other # NoTrade
  /\ IsNull(other["counterparty_1"])
  /\ \A p \in Phases : parseErrors[p] = 1
  /\ recordFindings = {}
  /\ otherFindings
       = {Finding("COMPLETENESS", "MISSING_FIELD", "counterparty_1", "CRITICAL")}

-----------------------------------------------------------------------------
\* Properties of the run's item (checked under Spec)

\* the times recorded on the run's item
RecordedTimes(run) ==
  ({run.phaseTime[t] : t \in Tasks} \cup {run.endTime}) \ {NoTime}

\* x is not earlier than any time recorded on the item
NotEarlier(x, run) == \A y \in RecordedTimes(run) : x >= y

\* a step keeps the recorded times and stamps what it records with a time
\* not earlier than them
TimesKeptInOrder ==
  /\ \A t \in Tasks :
       /\ reportRun.phaseTime[t] # NoTime
            => reportRun'.phaseTime[t] = reportRun.phaseTime[t]
       /\ reportRun'.phaseTime[t] # reportRun.phaseTime[t]
            => NotEarlier(reportRun'.phaseTime[t], reportRun)
  /\ reportRun'.endTime # reportRun.endTime
       => NotEarlier(reportRun'.endTime, reportRun)

\* a step changes the status only with the state of the execution, and
\* records a time when it does
StatusWrittenInTransition ==
  reportRun'.status # reportRun.status
    => /\ sfnState' # sfnState
       /\ RecordedTimes(reportRun') # RecordedTimes(reportRun)
       /\ (reportRun'.status \in Terminal => reportRun'.endTime # NoTime)

\* C28: the completion of every Lambda that succeeded is recorded on the
\* run's item, the format and the logical branch included, in whichever
\* order they finish; a recorded time is never overwritten; a time that is
\* recorded is not earlier than the times recorded before it; the status
\* changes only in a step in which the execution changes its state, never
\* when a branch merely finishes, and every change of the status records a
\* time.
C28_SingleStatusWriter ==
  /\ [](\A t \in Tasks :
          lambda[t].st = "succeeded" => reportRun.phaseTime[t] # NoTime)
  /\ [][TimesKeptInOrder /\ StatusWrittenInTransition]_vars

\* the logical branch finished right after the format branch, while the
\* completeness branch was still running: both times are on the item
C28_Witness ==
  /\ sfnState = "Parallel"
  /\ lambda["completeness"].st = "running"
  /\ lambda["format"].st = "succeeded"
  /\ lambda["logical"].st = "succeeded"
  /\ reportRun.phaseTime["profiling"] < reportRun.phaseTime["format"]
  /\ reportRun.phaseTime["logical"] = reportRun.phaseTime["format"] + 1
  /\ reportRun.status = "IN_PROGRESS"

-----------------------------------------------------------------------------
\* Properties of a run (checked under SpecRun)

\* C27: while the last attempt of a validator has raised a
\* RuleEvaluationError, the validator has no success, the run is not
\* COMPLETED and no overall score is stored; once the validator has failed
\* for good the run is FAILED; and the step that raises the error writes no
\* validation result and no score.
C27_RuleErrorFailsRun ==
  /\ [](\A t \in ruleErrors :
          /\ lambda[t].st \in {"running", "failed"}
          /\ reportRun.status # "COMPLETED"
          /\ scores = NoScore
          /\ reportRun.overallScore = NoScore
          /\ lambda[t].st = "failed"
               => reportRun.status = "FAILED" /\ sfnState = "Failed")
  /\ [][~(ruleErrors' \subseteq ruleErrors)
          => store' = store /\ scores' = scores]_vars

\* a broken rule of the logical validator failed all four attempts and the
\* run, although the format validator had succeeded
C27_Witness ==
  /\ "logical" \in ruleErrors
  /\ lambda["logical"].st = "failed"
  /\ lambda["logical"].retries = MaxRetries
  /\ lambda["format"].st = "succeeded"
  /\ reportRun.status = "FAILED"
  /\ scores = NoScore

\* C29: every run reaches a terminal state: the run becomes COMPLETED or
\* FAILED and the execution ends or fails, whatever fails on the way.
C29_RunTerminates ==
  <>(reportRun.status \in Terminal /\ sfnState \in {"End", "Failed"})

\* the format validator failed for good while the logical validator was
\* still running, and the run is FAILED
C29_Witness ==
  /\ lambda["format"].st = "failed"
  /\ lambda["logical"].st = "running"
  /\ sfnState = "Failed"
  /\ reportRun.status = "FAILED"

-----------------------------------------------------------------------------
\* Properties of the table names (checked under SpecNaming)

\* the region code of each three-part region name of the inputs
RegionCodes ==
  <<"u", "s", "-", "e", "a", "s", "t", "-", "1">> :> <<"u", "s", "e", "1">>
  @@ <<"e", "u", "-", "w", "e", "s", "t", "-", "1">> :> <<"e", "u", "w", "1">>
  @@ <<"e", "u", "-", "c", "e", "n", "t", "r", "a", "l", "-", "1">> :> <<"e", "u", "c", "1">>
  @@ <<"a", "p", "-", "s", "o", "u", "t", "h", "e", "a", "s", "t", "-", "2">> :> <<"a", "p", "s", "e", "2">>
  @@ <<"a", "p", "-", "n", "o", "r", "t", "h", "e", "a", "s", "t", "-", "1">> :> <<"a", "p", "n", "e", "1">>
  @@ <<"c", "n", "-", "n", "o", "r", "t", "h", "w", "e", "s", "t", "-", "1">> :> <<"c", "n", "n", "1">>

ThreePart == DOMAIN RegionCodes

\* the environments with their first letter in upper case
Capitalised ==
  <<"d", "e", "v">> :> <<"D", "e", "v">>
  @@ <<"s", "t", "a", "g", "i", "n", "g">> :> <<"S", "t", "a", "g", "i", "n", "g">>
  @@ <<"p", "r", "o", "d">> :> <<"P", "r", "o", "d">>

\* the codes and the region names of the inputs in upper case
UpperCase ==
  <<"u", "s", "e", "1">> :> <<"U", "S", "E", "1">>
  @@ <<"e", "u", "w", "1">> :> <<"E", "U", "W", "1">>
  @@ <<"e", "u", "c", "1">> :> <<"E", "U", "C", "1">>
  @@ <<"a", "p", "s", "e", "2">> :> <<"A", "P", "S", "E", "2">>
  @@ <<"a", "p", "n", "e", "1">> :> <<"A", "P", "N", "E", "1">>
  @@ <<"c", "n", "n", "1">> :> <<"C", "N", "N", "1">>
  @@ <<"u", "s", "-", "g", "o", "v", "-", "e", "a", "s", "t", "-", "1">> :> <<"U", "S", "-", "G", "O", "V", "-", "E", "A", "S", "T", "-", "1">>
  @@ <<"l", "o", "c", "a", "l">> :> <<"L", "O", "C", "A", "L">>

\* Emir{purpose}-{environment}-{code}
NameOf(purpose, environment, code) ==
  <<"E", "m", "i", "r">> \o purpose \o <<"-">> \o environment \o <<"-">>
  \o code

ReportRunsDevUSE1 ==
  <<"E", "m", "i", "r", "R", "e", "p", "o", "r", "t", "R",
    "u", "n", "s", "-", "D", "e", "v", "-", "U", "S", "E", "1">>

====
